---- MODULE Spec2Model ----
(***************************************************************************)
(* A model of the core of dagrunner:                                       *)
(*   - plugin_executor        (src/dagrunner/execute_graph.py)             *)
(*   - _handle_clobber        (src/dagrunner/runner/__init__.py)           *)
(*   - AsyncMP.run            (src/dagrunner/runner/schedulers/asyncmp.py) *)
(*   - AsyncMP.__enter__/__exit__ (the scope around run)                   *)
(*   - ExecuteGraph._process_graph (src/dagrunner/execute_graph.py)        *)
(*   - add_dummy_tasks        (src/dagrunner/runner/schedulers/dask.py)    *)
(* Each part has its own specification over the shared variables; the      *)
(* variables a part does not use keep their initial value.                 *)
(***************************************************************************)
EXTENDS Integers, Sequences, FiniteSets, TLC

\* ------------------------------------------------------------------ bounds
\* Number of tasks of a plan (keys are 1..MaxTasks).
MaxTasks == 3
\* Largest number of positional inputs handed to plugin_executor.
MaxArgs == 3
\* Largest modification time of a cache artifact (0 stands for "no file").
MaxTime == 2

Tasks == 1..MaxTasks

\* ------------------------------------------------------------------ values
\* Python values that flow between nodes, as tagged records.
Val(tag, n) == [tag |-> tag, of |-> n]
\* None
None == Val("None", 0)
\* plugin_framework.SKIP_EVENT / IGNORE_EVENT: the tokens plugin_executor imports.
SKIP_EVENT == Val("plugin_framework.SKIP_EVENT", 0)
IGNORE_EVENT == Val("plugin_framework.IGNORE_EVENT", 0)
\* dagrunner.events.SKIP_EVENT / IGNORE_EVENT: instances of other classes
\* (events._SkipEvent, events._IgnoreEvent); no __eq__ is defined, so they
\* are different objects from the tokens of plugin_framework.
events_SKIP_EVENT == Val("events.SKIP_EVENT", 0)
events_IGNORE_EVENT == Val("events.IGNORE_EVENT", 0)
\* The result a Unit computes at task t (t = 0: some user value).
Data(t) == Val("data", t)
\* A task key (TaskID) passed as a positional argument.
Key(t) == Val("key", t)

SkipTokens == {SKIP_EVENT, events_SKIP_EVENT}
IgnoreTokens == {IGNORE_EVENT, events_IGNORE_EVENT}
InputValues == {None, Data(0)} \cup SkipTokens \cup IgnoreTokens

\* ---------------------------------------------------------------- helpers
\* dict | dict : the right operand wins on a common key.
Merge(f, g) ==
  [k \in (DOMAIN f) \cup (DOMAIN g) |-> IF k \in DOMAIN g THEN g[k] ELSE f[k]]

\* list(filter(lambda x: x is not y, s)) for the one y of drop
RECURSIVE Filter(_, _)
Filter(s, drop) ==
  IF s = <<>> THEN <<>>
  ELSE IF Head(s) \in drop THEN Filter(Tail(s), drop)
       ELSE <<Head(s)>> \o Filter(Tail(s), drop)

Range(s) == {s[i] : i \in DOMAIN s}

\* The sequences that list the elements of S once each (an iteration order
\* of a set or of a dict whose insertion order the caller chooses).
Perms(S) ==
  {p \in [1..Cardinality(S) -> S] : \A x \in S : \E i \in DOMAIN p : p[i] = x}

\* Sequences over S of length at most n.
SeqsUpTo(S, n) == UNION {[1..k -> S] : k \in 0..n}

\* The empty dict.
EmptyDict == [k \in {} |-> 0]

\* Partial maps from a subset of K to V.
Dicts(K, V) == UNION {[D -> V] : D \in SUBSET K}

VARIABLES
  \* ---- plugin_executor: one call and its outcome
  args,           \* *args
  call_kwargs,    \* the call-parameter dict of the `call` tuple
  common_kwargs,  \* common_kwargs as passed by the caller
  verbose,        \* verbose
  dry_run,        \* dry_run
  signature,      \* names of inspect.signature(callable_obj).parameters
  unit,           \* what the Unit does when invoked: "return" or "raise"
  res,            \* outcome of the call (NoCall before it)
  \* ---- the task plan
  nxgraph,        \* ExecuteGraph._nxgraph: key -> list of predecessor keys
  graph,          \* the plan (exec_graph / dask_graph): key -> positional args
  \* ---- _handle_clobber
  mtime,          \* artifact of each task: its mtime, 0 when there is no file
  mark_removal,   \* mark_removal
  starting_nodes, \* starting nodes the final loop has still to visit
  stack,          \* active recursive_node_removal calls, innermost last
  cpc,            \* "idle", "visit" (the loop over starting nodes), "done"
  \* ---- AsyncMP.run (the coordinator)
  pred_deps,      \* pred_deps: key -> set of keys, completed keys popped
  succ_deps,      \* succ_deps: key -> successors not yet completed
  data_map,       \* data_map: key -> result
  async_results,  \* keys of async_results, in insertion order
  node_queue,     \* node_queue
  completed,      \* completed (of the current polling iteration)
  ci,             \* position of the loop over async_results.items()
  rpc,            \* "idle", "start", "check", "submit", "exit", "returned", "raised"
  failures_found, \* self._failures_found
  error,          \* the error run raised (NoError: none)
  \* ---- the pool
  worker,         \* AsyncResult of a key: "none", "running", "ok", "failed"
  wargs,          \* args the key was last submitted with
  wres,           \* what the worker returned or raised
  nsubmit,        \* number of apply_async calls per key
  \* ---- plugin_executor run by the threads of one process
  th_call,        \* node -> the dict object its call tuple holds as call[2]
  th_aware,       \* node -> its Unit is a subclass of NodeAwarePlugin
  heap,           \* dict object -> its content
  th_pc,          \* node -> where its thread is in plugin_executor
  th_kwargs,      \* node -> the thread's local callable_kwargs after the merge
  th_recv,        \* node -> the keyword arguments its Unit was invoked with
  \* ---- ExecuteGraph
  cache_enabled,  \* CONFIG["dagrunner_runtime"]["cache_enabled"]
  epc,            \* "idle", "init" (in __init__), "ready" (constructed)
  \* ---- the scope of an AsyncMP scheduler (with AsyncMP(...) as scheduler)
  fail_fast,      \* self._fail_fast
  pool,           \* self._pool: "none", "open", "closed", "joined"
  terminated,     \* self._pool.terminate() was called
  spc,            \* "idle", "new", "scope", "join" (in __exit__), "left"
  \* ---- add_dummy_tasks
  dask_graph,     \* the graph it returns: key -> keys the task depends on
  dk_target,      \* the target it returns (NoTarget: none, it raised)
  \* ---- plugin_executor: the call descriptor in full
  call,           \* call: <<Unit, dict or None, ...>> (MissingCall: call=None)
  unit_is_class,  \* isinstance(callable_obj, type)
  unit_is_aware,  \* issubclass(callable_obj, NodeAwarePlugin)
  init_signature, \* names of inspect.signature(<the class>).parameters
  ctor,           \* what the constructor does: "return" or "raise"
  \* ---- the node attributes of the networkx graph
  has_call,       \* the nodes that carry a `call` attribute
  \* ---- the control tokens in the processes of a run
  instances,      \* process -> Singleton._instances: class -> its instance
  tokens,         \* process -> module attribute (SKIP_EVENT, ...) -> object
  nobj,           \* process -> number of token objects created in it
  wire,           \* pickles in flight: [to: process, data: bytes]
  held,           \* process -> the objects pickle.loads returned in it
  trips,          \* number of pickle.dumps calls so far
  \* ---- the scheduler backend of an ExecuteGraph
  scheduler,      \* the name of the backend in SCHEDULERS
  exec_graph,     \* the dict self._exec_graph: key -> keys the task depends on
  \* ---- DataPolling
  error_on_missing, \* self._error_on_missing
  return_found,   \* self._return_found
  timeout,        \* self._timeout (self._polling is 1)
  on_disk,        \* the files that exist
  paths,          \* paths: the polled paths not found yet
  fpaths_found,   \* fpaths_found
  time_taken,     \* time_taken
  dp_pc,          \* "idle", "constructed", "poll", "rejected", "returned", "raised"
  dp_res,         \* what __init__ raised or __call__ returned or raised
  outcomes        \* (error_on_missing, return_found) -> the outcome for the
                  \* instances made so far: of __init__ when it raised, else
                  \* of a __call__ that left a file missing at the timeout

pxvars == <<args, call_kwargs, common_kwargs, verbose, dry_run, signature, unit,
           res>>
planvars == <<nxgraph, graph>>
clvars == <<mtime, mark_removal, starting_nodes, stack, cpc>>

runvars == <<pred_deps, succ_deps, data_map, async_results, node_queue,
             completed, ci, rpc, failures_found, error>>
poolvars == <<worker, wargs, wres, nsubmit>>
thvars == <<th_call, th_aware, heap, th_pc, th_kwargs, th_recv>>

egvars == <<cache_enabled, epc>>
scopevars == <<fail_fast, pool, terminated, spc>>
dkvars == <<dask_graph, dk_target>>

cdvars == <<call, unit_is_class, unit_is_aware, init_signature, ctor>>

nodevars == <<has_call>>

pkvars == <<instances, tokens, nobj, wire, held, trips>>

bkvars == <<scheduler, exec_graph>>

dpvars == <<error_on_missing, return_found, timeout, on_disk, paths,
            fpaths_found, time_taken, dp_pc, dp_res, outcomes>>

\* The variables of the parts that follow the scheduler's.
restvars == <<cdvars, nodevars, pkvars, bkvars, dpvars>>

\* The variables of the parts added to the three first ones.
extvars == <<thvars, egvars, scopevars, dkvars, restvars>>

vars == <<pxvars, planvars, clvars, runvars, poolvars, extvars>>

\* ------------------------------------------------------------ plugin_executor
\* Parameter names a Unit may declare and the dicts may hold: a parameter of
\* the Unit's own and the two names plugin_executor writes into common_kwargs.
ParamKeys == {"k", "verbose", "dry_run"}
ParamVals == BOOLEAN

NoCall == [kind |-> "none"]

\* _get_common_args_matching_signature(callable_obj, common_kwargs, keys)
_get_common_args_matching_signature(sig, common, keys) ==
  [k \in {x \in DOMAIN common : x \in sig \/ x \in keys} |-> common[k]]

\* Mutation of MergeCallKwargs: the operands of | swapped, so that a value
\* pinned in the call tuple wins over the common value.
MergeCallKwargs_CallWins(kwargs, sig, common) ==
  Merge(_get_common_args_matching_signature(sig, common, DOMAIN kwargs), kwargs)

\* callable_kwargs | _get_common_args_matching_signature(callable_obj,
\*     common_kwargs, callable_kwargs.keys())
MergeCallKwargs(kwargs, sig, common) ==
  Merge(kwargs, _get_common_args_matching_signature(sig, common, DOMAIN kwargs))

\* args = list(filter(lambda x: x is not None, args))
DropNone(a) == Filter(a, {None})

\* len(args) > 1 and all(map(lambda x: x is IGNORE_EVENT, args))
AllIgnore(a) == Len(a) > 1 /\ \A i \in DOMAIN a : a[i] = IGNORE_EVENT

\* args = list(filter(lambda x: x is not IGNORE_EVENT, args))
DropIgnore(a) == Filter(a, {IGNORE_EVENT})

\* common_kwargs.update({"verbose": verbose, "dry_run": dry_run})
UpdateCommon(common, verb, dry) ==
  Merge(common, [k \in {"verbose", "dry_run"} |-> IF k = "dry_run" THEN dry ELSE verb])

\* plugin_executor(*a, call=(Unit, kwargs), verbose=verb, dry_run=dry,
\* common_kwargs=common) for a Unit with call signature sig that returns ret,
\* or raises, when invoked.
plugin_executor(a, kwargs, common, verb, dry, sig, u, ret) ==
  LET common1 == UpdateCommon(common, verb, dry)
      a1 == DropNone(a)
      a2 == DropIgnore(a1)
      kw == MergeCallKwargs(kwargs, sig, common1)
  IN  IF AllIgnore(a1)
        THEN [kind |-> "return", value |-> IGNORE_EVENT, invoked |-> FALSE,
              unit_args |-> <<>>, unit_kwargs |-> EmptyDict]
      ELSE IF SKIP_EVENT \in Range(a2)
        THEN [kind |-> "return", value |-> SKIP_EVENT, invoked |-> FALSE,
              unit_args |-> <<>>, unit_kwargs |-> EmptyDict]
      ELSE IF dry
        THEN [kind |-> "return", value |-> None, invoked |-> FALSE,
              unit_args |-> a2, unit_kwargs |-> kw]
      ELSE IF u = "raise"
        THEN [kind |-> "raise", value |-> None, invoked |-> TRUE,
              unit_args |-> a2, unit_kwargs |-> kw]
      ELSE [kind |-> "return", value |-> ret, invoked |-> TRUE,
            unit_args |-> a2, unit_kwargs |-> kw]

\* No call of plugin_executor is modelled.
PxIdle ==
  /\ args = <<>> /\ call_kwargs = EmptyDict /\ common_kwargs = EmptyDict
  /\ verbose = FALSE /\ dry_run = FALSE /\ signature = {} /\ unit = "return"
  /\ res = NoCall

\* The inputs of one call: any positional inputs with a call tuple and common
\* kwargs without parameters, or at most one positional input with any
\* parameters.
PxInit ==
  /\ \/ /\ args \in SeqsUpTo(InputValues, MaxArgs)
        /\ call_kwargs = EmptyDict /\ common_kwargs = EmptyDict
        /\ signature = {} /\ verbose = FALSE
     \/ /\ args \in SeqsUpTo({Data(0), SKIP_EVENT}, 1)
        /\ call_kwargs \in Dicts(ParamKeys, ParamVals)
        /\ common_kwargs \in Dicts(ParamKeys, ParamVals)
        /\ signature \in SUBSET ParamKeys
        /\ verbose \in BOOLEAN
  /\ dry_run \in BOOLEAN
  /\ unit \in {"return", "raise"}
  /\ res = NoCall

\* One call of plugin_executor on the drawn inputs.
CallPluginExecutor ==
  /\ res = NoCall
  /\ res' = plugin_executor(args, call_kwargs, common_kwargs, verbose, dry_run,
                            signature, unit, Data(0))
  /\ common_kwargs' = UpdateCommon(common_kwargs, verbose, dry_run)
  /\ UNCHANGED <<args, call_kwargs, verbose, dry_run, signature, unit>>
  /\ UNCHANGED <<planvars, clvars, runvars, poolvars, extvars>>

PxNext == CallPluginExecutor

\* ------------------------------- plugin_executor: the call descriptor in full
\* Parameter names the dicts of a call descriptor and the signatures may hold.
CdKeys == {"k", "verbose"}

\* The value of `call` when the node has no call attribute (call=None).
MissingCall == <<>>
\* call[0], a reference to the Unit (a function or a class).
Unit == "Unit"
\* **node_properties of the call.
NodeProperties == [name |-> "node"]

CdIdle ==
  /\ call = MissingCall /\ unit_is_class = FALSE /\ unit_is_aware = FALSE
  /\ init_signature = {} /\ ctor = "return"

\* {} if x is None else x
OrEmptyDict(d) == IF d = None THEN EmptyDict ELSE d

\* Lines 128-157: callable_kwargs_init and callable_kwargs as unpacked from
\* the call tuple, whether callable_kwargs is the dict object call[2] itself,
\* or the ValueError for a tuple of another length.
Unpack(c, is_class) ==
  IF is_class /\ Len(c) = 3
    THEN [arity |-> TRUE, init |-> OrEmptyDict(c[2]), kw |-> OrEmptyDict(c[3]),
          kw_is_call_2 |-> c[3] # None]
  ELSE IF is_class /\ Len(c) = 2
    THEN [arity |-> TRUE, init |-> OrEmptyDict(c[2]), kw |-> EmptyDict,
          kw_is_call_2 |-> FALSE]
  ELSE IF ~is_class /\ Len(c) = 2
    THEN [arity |-> TRUE, init |-> EmptyDict, kw |-> OrEmptyDict(c[2]),
          kw_is_call_2 |-> FALSE]
  ELSE IF Len(c) = 1
    THEN [arity |-> TRUE, init |-> EmptyDict, kw |-> EmptyDict,
          kw_is_call_2 |-> FALSE]
  ELSE [arity |-> FALSE, init |-> EmptyDict, kw |-> EmptyDict,
        kw_is_call_2 |-> FALSE]

\* Line 167: callable_kwargs["node_properties"] = node_properties
InjectNodeProperties(kw, props) == Merge(kw, [k \in {"node_properties"} |-> props])

\* Mutation of InitKwargs: the common kwargs are not passed to the
\* constructor.
InitKwargs_NoCommon(init, sig, common) == init

\* Lines 168-171: callable_kwargs_init | the common kwargs of the signature
\* of the class.
InitKwargs(init, sig, common) ==
  Merge(init, _get_common_args_matching_signature(sig, common, {}))

\* Mutation of RunsConstructor: a dry run does not instantiate the class.
RunsConstructor_NotDry(is_class, dry) == is_class /\ ~dry

\* Lines 165-180: the class is instantiated, in a dry run too.
RunsConstructor(is_class, dry) == is_class

\* Errors plugin_executor raises.
CallRequired == "ValueError: call is a required argument"
ArityError == "ValueError: expecting 1, 2 or 3 values to unpack"
InitError == "RuntimeError: Failed to initialise"
CallError == "RuntimeError: Failed to execute"

\* The outcome of a call: what is returned or raised, what the constructor
\* and the call of the Unit received, and the content of the caller's
\* common_kwargs and call tuple when plugin_executor is left.
Outcome(kind, value, err, constructed, init, invoked, a, kw, common, c) ==
  [kind |-> kind, value |-> value, error |-> err,
   constructed |-> constructed, init_kwargs |-> init,
   invoked |-> invoked, unit_args |-> a, unit_kwargs |-> kw,
   common_kwargs |-> common, call |-> c]

\* plugin_executor(*a, call=c, verbose=verb, dry_run=dry, common_kwargs=common,
\* **props) for the Unit U: a function or a class (is_class), node aware or
\* not (aware), with the signatures init_sig and call_sig, whose constructor
\* and call return or raise (ctor, body), the call returning ret.
plugin_executor_full(a, c, common, verb, dry, props, U) ==
  LET common1 == UpdateCommon(common, verb, dry)
      a1 == DropNone(a)
      a2 == DropIgnore(a1)
      up == Unpack(c, U.is_class)
      injects == U.is_class /\ U.aware
      kw0 == IF injects THEN InjectNodeProperties(up.kw, props) ELSE up.kw
      c1 == IF injects /\ up.kw_is_call_2 THEN [c EXCEPT ![3] = kw0] ELSE c
      constructed == RunsConstructor(U.is_class, dry)
      init == IF constructed THEN InitKwargs(up.init, U.init_sig, common1)
              ELSE EmptyDict
      kw == MergeCallKwargs(kw0, U.call_sig, common1)
  IN  IF c = MissingCall
        THEN Outcome("raise", None, CallRequired, FALSE, EmptyDict, FALSE, <<>>,
                     EmptyDict, common1, c)
      ELSE IF AllIgnore(a1)
        THEN Outcome("return", IGNORE_EVENT, "", FALSE, EmptyDict, FALSE, <<>>,
                     EmptyDict, common1, c)
      ELSE IF SKIP_EVENT \in Range(a2)
        THEN Outcome("return", SKIP_EVENT, "", FALSE, EmptyDict, FALSE, <<>>,
                     EmptyDict, common1, c)
      ELSE IF ~up.arity
        THEN Outcome("raise", None, ArityError, FALSE, EmptyDict, FALSE, <<>>,
                     EmptyDict, common1, c)
      ELSE IF constructed /\ U.ctor = "raise"
        THEN Outcome("raise", None, InitError, TRUE, init, FALSE, <<>>,
                     EmptyDict, common1, c1)
      ELSE IF dry
        THEN Outcome("return", None, "", constructed, init, FALSE, a2, kw,
                     common1, c1)
      ELSE IF U.body = "raise"
        THEN Outcome("raise", None, CallError, constructed, init, TRUE, a2, kw,
                     common1, c1)
      ELSE Outcome("return", U.ret, "", constructed, init, TRUE, a2, kw,
                   common1, c1)

\* The dicts a call tuple may hold, and None in their place.
CallDicts == Dicts(CdKeys, {FALSE}) \cup {None}

\* The call tuples: of length 1 to 3, and one of length 4.
CallTuples ==
  {<<Unit>>, <<Unit, EmptyDict, EmptyDict, EmptyDict>>}
    \cup {<<Unit, d>> : d \in CallDicts}
    \cup {<<Unit, d, e>> : d \in CallDicts, e \in CallDicts}

\* The inputs of one call: one positional input with any call tuple, common
\* kwargs and signatures, or any positional inputs with a call tuple without
\* parameters or without a call.
CdInit ==
  /\ \/ /\ args = <<Data(0)>>
        /\ call \in CallTuples
        /\ common_kwargs \in Dicts(CdKeys, {TRUE})
        /\ init_signature \in SUBSET CdKeys
        /\ signature \in SUBSET CdKeys
        /\ verbose \in BOOLEAN
     \/ /\ args \in SeqsUpTo({None, Data(0), SKIP_EVENT, IGNORE_EVENT}, MaxArgs)
        /\ call \in {MissingCall, <<Unit>>}
        /\ common_kwargs = EmptyDict
        /\ init_signature = {} /\ signature = {}
        /\ verbose = FALSE
  /\ call_kwargs = EmptyDict
  /\ unit_is_class \in BOOLEAN
  /\ unit_is_aware \in (IF unit_is_class THEN BOOLEAN ELSE {FALSE})
  /\ ctor \in (IF unit_is_class THEN {"return", "raise"} ELSE {"return"})
  /\ dry_run \in BOOLEAN
  /\ unit \in {"return", "raise"}
  /\ res = NoCall

\* One call of plugin_executor on the drawn inputs: the caller's
\* common_kwargs and call tuple are left as the call left them.
CallPluginExecutorFull ==
  /\ res = NoCall
  /\ LET out == plugin_executor_full(
                  args, call, common_kwargs, verbose, dry_run, NodeProperties,
                  [is_class |-> unit_is_class, aware |-> unit_is_aware,
                   init_sig |-> init_signature, call_sig |-> signature,
                   ctor |-> ctor, body |-> unit, ret |-> Data(0)])
     IN  /\ res' = out
         /\ common_kwargs' = out.common_kwargs
         /\ call' = out.call
  /\ UNCHANGED <<args, call_kwargs, verbose, dry_run, signature, unit>>
  /\ UNCHANGED <<unit_is_class, unit_is_aware, init_signature, ctor>>
  /\ UNCHANGED <<planvars, clvars, runvars, poolvars, thvars, egvars, scopevars,
                 dkvars, nodevars, pkvars, bkvars, dpvars>>

CdNext == CallPluginExecutorFull

\* ------------------------------------------- plugin_executor called by threads
\* The dict objects that call tuples may hold as their callable_kwargs.
Dicts_Objects == {"d1", "d2"}

\* The properties of node n (the keyword arguments of plugin_executor other
\* than call and node_id).
Props(n) == [name |-> n]

ThIdle ==
  /\ th_call = EmptyDict /\ th_aware = EmptyDict /\ heap = EmptyDict
  /\ th_pc = EmptyDict /\ th_kwargs = EmptyDict /\ th_recv = EmptyDict

\* The scheduler "threads" runs the nodes of a plan without edges, each in a
\* thread of the one process: the call tuples are (Unit, init kwargs, dict)
\* with a class as Unit, and two nodes may hold the same dict object.
ThInit ==
  /\ th_call \in [Tasks -> Dicts_Objects]
  /\ th_aware \in [Tasks -> BOOLEAN]
  /\ heap = [d \in Dicts_Objects |-> EmptyDict]
  /\ th_pc = [n \in Tasks |-> "unpack"]
  /\ th_kwargs = [n \in Tasks |-> EmptyDict]
  /\ th_recv = [n \in Tasks |-> NoCall]

\* Lines 128-167: callable_kwargs is bound to the dict object of the call
\* tuple and, for a NodeAwarePlugin, node_properties is written into it.
ThInject(n) ==
  /\ th_pc[n] = "unpack"
  /\ heap' = IF th_aware[n]
               THEN [heap EXCEPT ![th_call[n]] =
                       Merge(@, [k \in {"node_properties"} |-> Props(n)])]
               ELSE heap
  /\ th_pc' = [th_pc EXCEPT ![n] = "init"]
  /\ UNCHANGED <<th_call, th_aware, th_kwargs, th_recv>>
  /\ UNCHANGED <<pxvars, planvars, clvars, runvars, poolvars, egvars, scopevars,
                 dkvars,
                 restvars>>

\* Lines 168-180: the class is instantiated.
ThConstruct(n) ==
  /\ th_pc[n] = "init"
  /\ th_pc' = [th_pc EXCEPT ![n] = "merge"]
  /\ UNCHANGED <<th_call, th_aware, heap, th_kwargs, th_recv>>
  /\ UNCHANGED <<pxvars, planvars, clvars, runvars, poolvars, egvars, scopevars,
                 dkvars,
                 restvars>>

\* Lines 182-184: callable_kwargs | common kwargs, a new dict that copies the
\* dict object as it is now.
ThMerge(n) ==
  /\ th_pc[n] = "merge"
  /\ th_kwargs' = [th_kwargs EXCEPT ![n] =
                     MergeCallKwargs(heap[th_call[n]], {},
                                     UpdateCommon(EmptyDict, FALSE, FALSE))]
  /\ th_pc' = [th_pc EXCEPT ![n] = "invoke"]
  /\ UNCHANGED <<th_call, th_aware, heap, th_recv>>
  /\ UNCHANGED <<pxvars, planvars, clvars, runvars, poolvars, egvars, scopevars,
                 dkvars,
                 restvars>>

\* Line 197: res = callable_obj(*args, **callable_kwargs)
ThInvoke(n) ==
  /\ th_pc[n] = "invoke"
  /\ th_recv' = [th_recv EXCEPT ![n] = th_kwargs[n]]
  /\ th_pc' = [th_pc EXCEPT ![n] = "done"]
  /\ UNCHANGED <<th_call, th_aware, heap, th_kwargs>>
  /\ UNCHANGED <<pxvars, planvars, clvars, runvars, poolvars, egvars, scopevars,
                 dkvars,
                 restvars>>

ThNext ==
  \E n \in Tasks : ThInject(n) \/ ThConstruct(n) \/ ThMerge(n) \/ ThInvoke(n)

\* ------------------------------------------------------------------ the plan
\* The keys of s in increasing order.
RECURSIVE SortedSeq(_)
SortedSeq(S) ==
  IF S = {} THEN <<>>
  ELSE LET m == CHOOSE x \in S : \A y \in S : x <= y
       IN  <<m>> \o SortedSeq(S \ {m})

\* The acyclic plans over Tasks, up to renaming of the keys: every edge goes
\* from a smaller to a larger key.  No operation reads the order of the keys;
\* where the code iterates over a dict or a set, the model takes any order.
Plans ==
  {[t \in Tasks |-> SortedSeq(P[t])] :
     P \in {Q \in [Tasks -> SUBSET Tasks] : \A t \in Tasks : Q[t] \subseteq 1..(t - 1)}}

\* The tasks reached from t by one edge or more.
RECURSIVE ReachedFrom(_, _, _)
ReachedFrom(g, S, n) ==
  IF n = 0 THEN S
  ELSE ReachedFrom(g, S \cup {s \in DOMAIN g : Range(g[s]) \cap S # {}}, n - 1)
DescendantsOf(g, t) ==
  ReachedFrom(g, {s \in DOMAIN g : t \in Range(g[s])}, MaxTasks)

\* All graphs over Tasks, with cycles and self-edges: neither networkx nor
\* _process_graph refuses them.
Graphs ==
  {[t \in Tasks |-> SortedSeq(P[t])] : P \in [Tasks -> SUBSET Tasks]}

\* The graph has a directed cycle (a self-edge included).
HasCycle(g) == \E t \in DOMAIN g : t \in DescendantsOf(g, t)
\* The graph has a self-edge.
HasSelfEdge(g) == \E t \in DOMAIN g : t \in Range(g[t])

\* dask.core.get_deps(graph)[0]: the keys of the plan among a task's args.
PredDeps(g) == [t \in DOMAIN g |-> Range(g[t]) \cap DOMAIN g]
\* dask.core.get_deps(graph)[1]: the reverse of the dependencies.
SuccDeps(g) == [t \in DOMAIN g |-> {s \in DOMAIN g : t \in Range(g[s])}]

\* starting_nodes: the tasks without dependencies.
StartingNodes(g) == {t \in DOMAIN g : PredDeps(g)[t] = {}}

\* Transitive successors of t in the graph as compiled.
RECURSIVE DescendantsIn(_, _, _)
DescendantsIn(g, S, n) ==
  IF n = 0 THEN S
  ELSE DescendantsIn(g, S \cup {s \in DOMAIN g : Range(g[s]) \cap S # {}}, n - 1)
Descendants(g, t) == DescendantsIn(g, {t}, MaxTasks) \ {t}
Ancestors(g, t) == {a \in DOMAIN g : t \in Descendants(g, a)}

PlanIdle == nxgraph = EmptyDict /\ graph = EmptyDict

\* ------------------------------------------------------------- ExecuteGraph
EgIdle == cache_enabled = FALSE /\ epc = "idle"

\* ExecuteGraph(networkx_graph) is called on an acyclic graph, with any
\* configuration of the cache and any artifacts on disk.
EgInit ==
  /\ nxgraph \in Plans
  /\ graph = EmptyDict
  /\ cache_enabled \in BOOLEAN
  /\ epc = "init"

\* _process_graph, lines 366-378: one task per node, whose args are the keys
\* of the node's predecessors; the configuration of the cache is not read.
ProcessGraph ==
  /\ epc = "init"
  /\ graph' = [t \in DOMAIN nxgraph |-> nxgraph[t]]
  /\ epc' = "ready"
  /\ UNCHANGED <<nxgraph, cache_enabled>>
  /\ UNCHANGED <<pxvars, clvars, runvars, poolvars, thvars, scopevars, dkvars,
                 restvars>>

EgNext == ProcessGraph

\* ----------------------------------------------------------- _handle_clobber
\* Mutation of IsFile: the test for the file is left out.
IsFile_Always(mt, n) == TRUE

\* os.path.isfile(_PickleCache(node_id).cache_filepath)
IsFile(mt, n) == mt[n] > 0

\* Mutation of SkipKey: >= for >, an input as old as the output forces a rerun.
SkipKey_NotOlder(g, mt, node) ==
  \A i \in DOMAIN g[node] : ~(IsFile(mt, g[node][i]) /\ mt[g[node][i]] >= mt[node])

\* skip_key after the loop over the args of node: no input artifact exists
\* that is newer than the artifact of node.
SkipKey(g, mt, node) ==
  \A i \in DOMAIN g[node] : ~(IsFile(mt, g[node][i]) /\ mt[g[node][i]] > mt[node])

\* mark_recursively_false(node) applied to the marks m.
RECURSIVE mark_recursively_false(_, _, _)
mark_recursively_false(g, m, node) ==
  LET m1 == Merge(m, [k \in {node} |-> FALSE])
      RECURSIVE over(_, _)
      over(mm, todo) ==
        IF todo = {} THEN mm
        ELSE LET s == CHOOSE x \in todo : TRUE
             IN  over(mark_recursively_false(g, mm, s), todo \ {s})
  IN  over(m1, SuccDeps(g)[node])

\* The call recursive_node_removal(node) up to its loop over the successors:
\* the marks it leaves and whether that loop is entered.
EnterNode(g, mt, m, node) ==
  IF node \in DOMAIN m /\ m[node] = FALSE
    THEN [marks |-> mark_recursively_false(g, m, node), loop |-> FALSE]
  ELSE IF IsFile(mt, node)
    THEN IF SkipKey(g, mt, node)
           THEN [marks |-> Merge(m, [k \in {node} |-> TRUE]), loop |-> TRUE]
           ELSE [marks |-> mark_recursively_false(g, m, node), loop |-> FALSE]
  ELSE [marks |-> m, loop |-> FALSE]

ClobberIdle ==
  /\ mtime = EmptyDict /\ mark_removal = EmptyDict /\ starting_nodes = {}
  /\ stack = <<>> /\ cpc = "idle"

\* _handle_clobber is called on a plan as compiled, with any artifacts on disk.
ClobberInit ==
  /\ nxgraph \in Plans
  /\ graph = nxgraph
  /\ mtime \in [Tasks -> 0..MaxTime]
  /\ mark_removal = EmptyDict
  /\ starting_nodes = StartingNodes(graph)
  /\ stack = <<>>
  /\ cpc = "visit"

\* recursive_node_removal(node) is called: by the loop over the starting
\* nodes (the stack is empty) or by the loop over the successors of the
\* innermost call.
Call(node) ==
  LET e == EnterNode(graph, mtime, mark_removal, node)
  IN  /\ mark_removal' = e.marks
      /\ stack' = IF e.loop
                    THEN Append(stack, [node |-> node, todo |-> SuccDeps(graph)[node]])
                    ELSE stack

\* for starting_node in starting_nodes: recursive_node_removal(starting_node)
VisitStartingNode ==
  /\ cpc = "visit" /\ stack = <<>>
  /\ \E n \in starting_nodes :
       /\ starting_nodes' = starting_nodes \ {n}
       /\ Call(n)
  /\ UNCHANGED <<mtime, cpc, planvars, pxvars, extvars, runvars, poolvars>>

\* for successor_node in succ_deps[node]: recursive_node_removal(successor_node)
VisitSuccessor ==
  /\ cpc = "visit" /\ stack # <<>>
  /\ LET top == stack[Len(stack)]
     IN  \E s \in top.todo :
           LET e == EnterNode(graph, mtime, mark_removal, s)
               rest == [stack EXCEPT ![Len(stack)].todo = top.todo \ {s}]
           IN  /\ mark_removal' = e.marks
               /\ stack' = IF e.loop
                             THEN Append(rest, [node |-> s, todo |-> SuccDeps(graph)[s]])
                             ELSE rest
  /\ UNCHANGED <<mtime, cpc, starting_nodes, planvars, pxvars, extvars, runvars, poolvars>>

\* The loop over the successors is over: recursive_node_removal returns.
ReturnFromNode ==
  /\ cpc = "visit" /\ stack # <<>>
  /\ stack[Len(stack)].todo = {}
  /\ stack' = SubSeq(stack, 1, Len(stack) - 1)
  /\ UNCHANGED <<mtime, cpc, starting_nodes, mark_removal, planvars, pxvars, extvars,
                 runvars, poolvars>>

\* for node, remove in mark_removal.items(): if remove: dask_graph.pop(node)
RemoveMarked ==
  /\ cpc = "visit" /\ stack = <<>> /\ starting_nodes = {}
  /\ graph' = [t \in {x \in DOMAIN graph :
                        ~(x \in DOMAIN mark_removal /\ mark_removal[x])} |-> graph[t]]
  /\ cpc' = "done"
  /\ UNCHANGED <<nxgraph, mtime, mark_removal, starting_nodes, stack, pxvars, extvars,
                 runvars, poolvars>>

ClobberNext == VisitStartingNode \/ VisitSuccessor \/ ReturnFromNode \/ RemoveMarked

\* --------------------------------------------------------------- AsyncMP.run
ScopeIdle == fail_fast = TRUE /\ pool = "none" /\ terminated = FALSE /\ spc = "idle"

NoError == [kind |-> "none"]
\* The exception a failing worker raised for key t.
WorkerError(t) == Val("exception", t)

RunIdle ==
  /\ pred_deps = EmptyDict /\ succ_deps = EmptyDict /\ data_map = EmptyDict
  /\ async_results = <<>> /\ node_queue = <<>> /\ completed = <<>> /\ ci = 0
  /\ rpc = "idle" /\ failures_found = FALSE /\ error = NoError
  /\ worker = EmptyDict /\ wargs = EmptyDict /\ wres = EmptyDict
  /\ nsubmit = EmptyDict

\* A scheduler has been created (__init__, __enter__) and run is called on a
\* plan: nothing is submitted yet.
RunInit ==
  /\ nxgraph \in Plans
  /\ graph = nxgraph
  /\ pred_deps = EmptyDict /\ succ_deps = EmptyDict /\ data_map = EmptyDict
  /\ async_results = <<>> /\ node_queue = <<>> /\ completed = <<>> /\ ci = 0
  /\ rpc = "start" /\ failures_found = FALSE /\ error = NoError
  /\ worker = [t \in Tasks |-> "none"]
  /\ wargs = [t \in Tasks |-> <<>>]
  /\ wres = [t \in Tasks |-> None]
  /\ nsubmit = [t \in Tasks |-> 0]

\* graph[node][1:] as passed to apply_async without substitution: the keys.
RawArgs(g, t) == [i \in DOMAIN g[t] |-> Key(g[t][i])]

\* Mutation of _insert_results: `result_lookup.get(args) or args`, a result
\* that is None is taken for a missing one.
_insert_results_OrArgs(a, result_lookup) ==
  [i \in DOMAIN a |-> IF a[i] \in DOMAIN result_lookup /\ result_lookup[a[i]] # None
                        THEN result_lookup[a[i]] ELSE Key(a[i])]

\* _insert_results(args, result_lookup) on the list of positional args.
_insert_results(a, result_lookup) ==
  [i \in DOMAIN a |-> IF a[i] \in DOMAIN result_lookup
                        THEN result_lookup[a[i]] ELSE Key(a[i])]

\* Mutation of LoopTest: the loop is left while one key is still pending.
LoopTest_OneLeft(pd) == IF Cardinality(DOMAIN pd) > 1 THEN "check" ELSE "exit"

\* while len(pred_deps) != 0
LoopTest(pd) == IF DOMAIN pd # {} THEN "check" ELSE "exit"

\* run is called on any graph, cyclic or not: nothing between the networkx
\* graph and run checks it.
RunInitAny ==
  /\ nxgraph \in Graphs
  /\ graph = nxgraph
  /\ pred_deps = EmptyDict /\ succ_deps = EmptyDict /\ data_map = EmptyDict
  /\ async_results = <<>> /\ node_queue = <<>> /\ completed = <<>> /\ ci = 0
  /\ rpc = "start" /\ failures_found = FALSE /\ error = NoError
  /\ worker = [t \in Tasks |-> "none"]
  /\ wargs = [t \in Tasks |-> <<>>]
  /\ wres = [t \in Tasks |-> None]
  /\ nsubmit = [t \in Tasks |-> 0]

\* Lines 83-100: the dependencies, and the starting nodes submitted in the
\* order of the plan's keys (any order).
RunStart ==
  /\ rpc = "start"
  /\ pred_deps' = PredDeps(graph)
  /\ succ_deps' = SuccDeps(graph)
  /\ data_map' = EmptyDict
  /\ \E order \in Perms(StartingNodes(graph)) :
       /\ async_results' = order
       /\ worker' = [t \in Tasks |-> IF t \in Range(order) THEN "running" ELSE worker[t]]
       /\ wargs' = [t \in Tasks |-> IF t \in Range(order) THEN RawArgs(graph, t)
                                     ELSE wargs[t]]
       /\ nsubmit' = [t \in Tasks |-> IF t \in Range(order) THEN nsubmit[t] + 1
                                       ELSE nsubmit[t]]
  /\ node_queue' = <<>>
  /\ completed' = <<>>
  /\ ci' = 1
  /\ rpc' = LoopTest(PredDeps(graph))
  /\ UNCHANGED <<failures_found, error, wres, planvars, clvars, pxvars, extvars>>

\* The loop over async_results.items() is at a result that is not ready.
CheckNotReady ==
  /\ rpc = "check" /\ ci <= Len(async_results)
  /\ worker[async_results[ci]] = "running"
  /\ ci' = ci + 1
  /\ UNCHANGED <<pred_deps, succ_deps, data_map, async_results, node_queue,
                 completed, rpc, failures_found, error, poolvars, planvars,
                 clvars, pxvars, extvars>>

\* Mutation of ExtendQueue: the successors of a completed target are not queued.
ExtendQueue_Dropped(q, order) == q

\* node_queue.extend(succ_deps[target])
ExtendQueue(q, order) == q \o order

\* Lines 123-130: target is dropped from the successors of every key that
\* holds data, and the keys left without successors are dropped from data_map.
PruneSuccDeps(sd, dm, target) ==
  [k \in DOMAIN sd |-> IF k \in DOMAIN dm THEN sd[k] \ {target} ELSE sd[k]]

\* Mutation of PruneDataMap: the result just stored is never dropped in the
\* step that stores it.
PruneDataMap_KeepTarget(sd, dm, target) ==
  [k \in {d \in DOMAIN dm : d = target \/ PruneSuccDeps(sd, dm, target)[d] # {}} |-> dm[k]]

\* data_map after lines 123-130.
PruneDataMap(sd, dm, target) ==
  [k \in {d \in DOMAIN dm : PruneSuccDeps(sd, dm, target)[d] # {}} |-> dm[k]]

\* Lines 115-130: a ready, successful result is taken.
CheckSuccess ==
  /\ rpc = "check" /\ ci <= Len(async_results)
  /\ LET target == async_results[ci]
         dm == Merge(data_map, [k \in {target} |-> wres[target]])
     IN  /\ worker[target] = "ok"
         /\ pred_deps' = [k \in (DOMAIN pred_deps) \ {target} |-> pred_deps[k]]
         /\ completed' = Append(completed, target)
         /\ \E order \in Perms(succ_deps[target]) :
              node_queue' = ExtendQueue(node_queue, order)
         /\ succ_deps' = PruneSuccDeps(succ_deps, dm, target)
         /\ data_map' = PruneDataMap(succ_deps, dm, target)
  /\ ci' = ci + 1
  /\ UNCHANGED <<async_results, rpc, failures_found, error, poolvars, planvars,
                 clvars, pxvars, extvars>>

\* Mutation of CheckFailure: the failure is not raised and the failed target
\* is taken as completed.
CheckFailure_Swallowed ==
  /\ rpc = "check" /\ ci <= Len(async_results)
  /\ LET target == async_results[ci]
     IN  /\ worker[target] = "failed"
         /\ pred_deps' = [k \in (DOMAIN pred_deps) \ {target} |-> pred_deps[k]]
         /\ completed' = Append(completed, target)
         /\ \E order \in Perms(succ_deps[target]) :
              node_queue' = ExtendQueue(node_queue, order)
  /\ ci' = ci + 1
  /\ UNCHANGED <<succ_deps, data_map, async_results, rpc, failures_found, error,
                 poolvars, planvars, clvars, pxvars, extvars>>

\* Lines 106-114: a ready result is not successful: run raises.
CheckFailure ==
  /\ rpc = "check" /\ ci <= Len(async_results)
  /\ LET target == async_results[ci]
     IN  /\ worker[target] = "failed"
         /\ failures_found' = TRUE
         /\ error' = [kind |-> "Command failure", key |-> target,
                      command |-> [call |-> graph[target], node_id |-> target],
                      cause |-> wres[target]]
  /\ rpc' = "raised"
  /\ UNCHANGED <<pred_deps, succ_deps, data_map, async_results, node_queue,
                 completed, ci, poolvars, planvars, clvars, pxvars, extvars>>

\* Line 132: [async_results.pop(target) for target in completed]
CheckEnd ==
  /\ rpc = "check" /\ ci > Len(async_results)
  /\ async_results' = Filter(async_results, Range(completed))
  /\ rpc' = "submit"
  /\ UNCHANGED <<pred_deps, succ_deps, data_map, node_queue, completed, ci,
                 failures_found, error, poolvars, planvars, clvars, pxvars, extvars>>

\* Mutation of AlreadyRunning: the test is dropped.
AlreadyRunning_Never(target, ar) == FALSE

\* target in async_results
AlreadyRunning(target, ar) == target \in Range(ar)

\* Mutation of PredsPending: all for any.
PredsPending_All(pd, target) == \A pred \in pd[target] : pred \in DOMAIN pd

\* any([pred in pred_deps for pred in pred_deps[target]])
PredsPending(pd, target) == \E pred \in pd[target] : pred \in DOMAIN pd

\* Lines 135-156, the loop over node_queue: the keys of async_results after
\* it, running_nodes, the targets submitted in order, and whether
\* pred_deps[target] raised KeyError.
RECURSIVE SubmitLoop(_, _, _)
SubmitLoop(q, pd, st) ==
  IF q = <<>> \/ st.keyerror THEN st
  ELSE LET target == Head(q)
       IN  IF AlreadyRunning(target, st.ar)
             THEN SubmitLoop(Tail(q), pd,
                             [st EXCEPT !.running = @ \cup {target}])
           ELSE IF target \notin DOMAIN pd
             THEN [st EXCEPT !.keyerror = TRUE]
           ELSE IF PredsPending(pd, target)
             THEN SubmitLoop(Tail(q), pd, st)
           ELSE SubmitLoop(Tail(q), pd,
                           [st EXCEPT !.running = @ \cup {target},
                                      !.ar = IF target \in Range(@) THEN @
                                             ELSE Append(@, target),
                                      !.submitted = Append(@, target)])

Count(s, x) == Cardinality({i \in DOMAIN s : s[i] = x})

\* Lines 134-162: the targets of the queue whose predecessors are done are
\* submitted, the queue is updated, and the loop condition is tested after
\* the sleep.
SubmitReady ==
  /\ rpc = "submit"
  /\ LET st == SubmitLoop(node_queue, pred_deps,
                          [ar |-> async_results, running |-> {},
                           submitted |-> <<>>, keyerror |-> FALSE])
         new == Range(st.submitted)
     IN  /\ async_results' = st.ar
         /\ worker' = [t \in Tasks |-> IF t \in new THEN "running" ELSE worker[t]]
         /\ wargs' = [t \in Tasks |-> IF t \in new
                                       THEN _insert_results(graph[t], data_map)
                                       ELSE wargs[t]]
         /\ nsubmit' = [t \in Tasks |-> nsubmit[t] + Count(st.submitted, t)]
         /\ IF st.keyerror
              THEN /\ rpc' = "raised"
                   /\ error' = [kind |-> "KeyError"]
                   /\ UNCHANGED <<node_queue, completed, ci>>
              ELSE /\ rpc' = LoopTest(pred_deps)
                   /\ error' = error
                   /\ completed' = <<>>
                   /\ ci' = 1
                   /\ IF st.running # {}
                        THEN \E order \in Perms(Range(node_queue) \ st.running) :
                               node_queue' = order
                        ELSE node_queue' = node_queue
  /\ UNCHANGED <<pred_deps, succ_deps, data_map, failures_found, wres,
                 planvars, clvars, pxvars, extvars>>

\* Lines 163-168: the loop is left.
RunExit ==
  /\ rpc = "exit"
  /\ IF node_queue # <<>>
       THEN rpc' = "raised" /\ error' = [kind |-> "targets were not executed"]
     ELSE IF async_results # <<>>
       THEN rpc' = "raised"
            /\ error' = [kind |-> "targets did not complete execution"]
     ELSE rpc' = "returned" /\ error' = error
  /\ UNCHANGED <<pred_deps, succ_deps, data_map, async_results, node_queue,
                 completed, ci, failures_found, poolvars, planvars, clvars,
                 pxvars, extvars>>

\* A worker of the pool runs the task of key t, plugin_executor on the args
\* it was submitted with, to its end: the Unit, if invoked, returns ret
\* (u = "return") or raises (u = "raise").
WorkerFinish(t, u, ret) ==
  /\ t \in DOMAIN worker /\ worker[t] = "running"
  /\ LET out == plugin_executor(wargs[t], EmptyDict, EmptyDict, FALSE, FALSE, {}, u, ret)
     IN  /\ worker' = [worker EXCEPT ![t] = IF out.kind = "raise" THEN "failed"
                                            ELSE "ok"]
         /\ wres' = [wres EXCEPT ![t] = IF out.kind = "raise" THEN WorkerError(t)
                                        ELSE out.value]
  /\ UNCHANGED <<wargs, nsubmit, runvars, planvars, clvars, pxvars, extvars>>

\* `with AsyncMP(nprocesses, fail_fast=...) as scheduler: scheduler.run(graph)`
\* is about to be executed on a plan: __init__ has run, the pool is not yet
\* created.
ScopeInit ==
  /\ nxgraph \in Plans
  /\ graph = nxgraph
  /\ pred_deps = EmptyDict /\ succ_deps = EmptyDict /\ data_map = EmptyDict
  /\ async_results = <<>> /\ node_queue = <<>> /\ completed = <<>> /\ ci = 0
  /\ rpc = "idle" /\ failures_found = FALSE /\ error = NoError
  /\ worker = [t \in Tasks |-> "none"]
  /\ wargs = [t \in Tasks |-> <<>>]
  /\ wres = [t \in Tasks |-> None]
  /\ nsubmit = [t \in Tasks |-> 0]
  /\ fail_fast \in BOOLEAN
  /\ pool = "none" /\ terminated = FALSE /\ spc = "new"

\* __enter__ creates the pool, and the body of the scope calls run.
Enter ==
  /\ spc = "new"
  /\ pool' = "open"
  /\ spc' = "scope"
  /\ rpc' = "start"
  /\ UNCHANGED <<fail_fast, terminated>>
  /\ UNCHANGED <<pred_deps, succ_deps, data_map, async_results, node_queue,
                 completed, ci, failures_found, error>>
  /\ UNCHANGED <<pxvars, planvars, clvars, poolvars, thvars, egvars, dkvars,
                 restvars>>

\* An exception that is not a task failure is raised inside the scope, while
\* run polls (such as KeyboardInterrupt during the sleep of line 162).
Interrupted ==
  /\ spc = "scope" /\ rpc \in {"check", "submit"}
  /\ rpc' = "raised"
  /\ error' = [kind |-> "interrupted"]
  /\ UNCHANGED <<pred_deps, succ_deps, data_map, async_results, node_queue,
                 completed, ci, failures_found>>
  /\ UNCHANGED <<pxvars, planvars, clvars, poolvars, thvars, egvars, scopevars,
                 dkvars,
                 restvars>>

\* Mutation of Terminates: the pool is terminated on any failure.
Terminates_OnFailure(ff, failures) == failures

\* if self._fail_fast and self._failures_found
Terminates(ff, failures) == ff /\ failures

\* Lines 180-182 of __exit__, entered when run has returned or raised: the
\* pool is terminated (its running tasks are killed) or not, and closed.
Exit ==
  /\ spc = "scope" /\ rpc \in {"returned", "raised"}
  /\ terminated' = Terminates(fail_fast, failures_found)
  /\ worker' = [t \in Tasks |->
                  IF Terminates(fail_fast, failures_found) /\ worker[t] = "running"
                    THEN "terminated" ELSE worker[t]]
  /\ pool' = "closed"
  /\ spc' = "join"
  /\ UNCHANGED <<fail_fast, wargs, wres, nsubmit, runvars>>
  /\ UNCHANGED <<pxvars, planvars, clvars, thvars, egvars, dkvars,
                 restvars>>

\* Mutation of JoinReady: join does not wait.
JoinReady_NoWait(w) == TRUE

\* self._pool.join() returns when the workers have exited: no task is running.
JoinReady(w) == \A t \in DOMAIN w : w[t] # "running"

\* Line 184 of __exit__: join returns and the scope is left, with the error
\* run raised, if any.
Join ==
  /\ spc = "join" /\ JoinReady(worker)
  /\ pool' = "joined"
  /\ spc' = "left"
  /\ UNCHANGED <<fail_fast, terminated>>
  /\ UNCHANGED <<pxvars, planvars, clvars, runvars, poolvars, thvars, egvars,
                 dkvars,
                 restvars>>

Scope == Enter \/ Interrupted \/ Exit \/ Join

\* The run coordinator hands the plan the cache filter returned to the
\* scheduler: run is called on it.
RunFiltered ==
  /\ cpc = "done" /\ rpc = "idle"
  /\ rpc' = "start"
  /\ worker' = [t \in Tasks |-> "none"]
  /\ wargs' = [t \in Tasks |-> <<>>]
  /\ wres' = [t \in Tasks |-> None]
  /\ nsubmit' = [t \in Tasks |-> 0]
  /\ ci' = 0
  /\ UNCHANGED <<pred_deps, succ_deps, data_map, async_results, node_queue,
                 completed, failures_found, error>>
  /\ UNCHANGED <<pxvars, planvars, clvars, thvars, egvars, scopevars, dkvars,
                 restvars>>

\* ------------------------------------------------- ExecuteGraph.__call__
NodesIdle == has_call = {}

\* ExecuteGraph(networkx_graph) is called on an acyclic graph some of whose
\* nodes may have no `call` attribute; the scheduler is the default one
\* ("multiprocessing", AsyncMP).
EgInitNodes ==
  /\ nxgraph \in Plans
  /\ has_call \in SUBSET Tasks
  /\ graph = EmptyDict
  /\ cache_enabled = FALSE
  /\ epc = "init"

\* Lines 383-389: the scheduler is created with the defaults of its
\* parameters (fail_fast is True) and its scope is about to be entered; run
\* will be called on self._exec_graph.
CallExecuteGraph ==
  /\ epc = "ready" /\ spc = "idle"
  /\ spc' = "new"
  /\ worker' = [t \in Tasks |-> "none"]
  /\ wargs' = [t \in Tasks |-> <<>>]
  /\ wres' = [t \in Tasks |-> None]
  /\ nsubmit' = [t \in Tasks |-> 0]
  /\ UNCHANGED <<fail_fast, pool, terminated, runvars>>
  /\ UNCHANGED <<pxvars, planvars, clvars, thvars, egvars, dkvars, restvars>>

\* Mutation of CallOf: a node without call attribute gets a default Unit.
CallOf_Default(hc, t) == <<Unit>>

\* The `call` keyword the task of node t passes to plugin_executor: the call
\* attribute among the node's properties (here a function Unit without
\* parameters), or the default None of the parameter.
CallOf(hc, t) == IF t \in hc THEN <<Unit>> ELSE MissingCall

\* A worker of the pool runs the task of key t, plugin_executor with the
\* properties of the node as keyword arguments, to its end.
WorkerFinishNode(t, u) ==
  /\ t \in DOMAIN worker /\ worker[t] = "running"
  /\ LET out == plugin_executor_full(
                  wargs[t], CallOf(has_call, t), EmptyDict, FALSE, FALSE,
                  NodeProperties,
                  [is_class |-> FALSE, aware |-> FALSE, init_sig |-> {},
                   call_sig |-> {}, ctor |-> "return", body |-> u,
                   ret |-> Data(t)])
     IN  /\ worker' = [worker EXCEPT ![t] = IF out.kind = "raise" THEN "failed"
                                            ELSE "ok"]
         /\ wres' = [wres EXCEPT ![t] = IF out.kind = "raise"
                                          THEN Val(out.error, t) ELSE out.value]
  /\ UNCHANGED <<wargs, nsubmit, runvars, planvars, clvars, pxvars, extvars>>

\* Every Unit returns its own data or raises.
NodeWorkers == \E t \in Tasks : \E u \in {"return", "raise"} : WorkerFinishNode(t, u)

\* The steps of the coordinator (the process that called run).
Coordinator ==
  \/ RunStart
  \/ CheckNotReady
  \/ CheckSuccess
  \/ CheckFailure
  \/ CheckEnd
  \/ SubmitReady
  \/ RunExit

\* Every Unit returns its own data or raises.
Workers == \E t \in Tasks : \E u \in {"return", "raise"} : WorkerFinish(t, u, Data(t))

\* What the Unit of task t may return where the values matter: its own data,
\* None or a control token.
Returns(t) == {Data(t), None, SKIP_EVENT}

\* Every Unit returns one of these values or raises.
DataWorkers ==
  \E t \in Tasks : \E u \in {"return", "raise"} : \E ret \in Returns(t) :
    WorkerFinish(t, u, ret)

NextData == Coordinator \/ DataWorkers

Next == Coordinator \/ Workers

\* ----------------------------------------------------------- add_dummy_tasks
NoTarget == Val("no target", 0)

DkIdle == dask_graph = EmptyDict /\ dk_target = NoTarget

\* tokenize(dask_graph[t]): the task tuple holds the node_id of t, so the
\* tuples of two tasks differ and so do their tokens; the token of a task
\* tuple is identified by its node.
TokenOfTask(g, t) == t
\* tokenize((no_op, *no_op_tasks)): a tuple that is no task of the plan.
TokenOfTerminator == 0
\* "waiter-" + token
Waiter(token) == Val("waiter", token)

\* The tasks without successors: succ_deps.items() with `not successors`.
Terminals(g) == {t \in DOMAIN g : SuccDeps(g)[t] = {}}

\* Mutation of NoOpTasks: one sink only, for the first task found without
\* successors.
NoOpTasks_OnlyOne(g) ==
  IF Terminals(g) = {} THEN EmptyDict
  ELSE LET t == CHOOSE x \in Terminals(g) : \A y \in Terminals(g) : x <= y
       IN  [k \in {Waiter(TokenOfTask(g, t))} |-> {Key(t)}]

\* no_op_tasks: sink key -> the keys the sink depends on.
NoOpTasks(g) ==
  [k \in {Waiter(TokenOfTask(g, t)) : t \in Terminals(g)} |->
     {Key(t) : t \in {x \in Terminals(g) : Waiter(TokenOfTask(g, x)) = k}}]

\* add_dummy_tasks(dask_graph): the graph and the target it returns, or the
\* ValueError it raises for a self reference.
add_dummy_tasks(g) ==
  LET no_op_tasks == NoOpTasks(g)
      tasks == [k \in {Key(t) : t \in DOMAIN g} |->
                  {Key(p) : p \in Range(g[k.of]) \cap DOMAIN g}]
      updated == Merge(tasks, no_op_tasks)
  IN  IF HasSelfEdge(g)
        THEN [raised |-> TRUE, graph |-> EmptyDict, target |-> NoTarget]
      ELSE IF Cardinality(DOMAIN no_op_tasks) = 1
        THEN [raised |-> FALSE, graph |-> updated,
              target |-> CHOOSE k \in DOMAIN no_op_tasks : TRUE]
      ELSE [raised |-> FALSE,
            graph |-> Merge(updated, [k \in {Waiter(TokenOfTerminator)} |->
                                        DOMAIN no_op_tasks]),
            target |-> Waiter(TokenOfTerminator)]

\* The error add_dummy_tasks raised.
SelfReference == Val("ValueError: Self referencing dependency", 0)

\* A dask scheduler's run calls add_dummy_tasks on a copy of the plan.
DkInit ==
  /\ nxgraph \in Graphs
  /\ graph = nxgraph
  /\ dask_graph = EmptyDict
  /\ dk_target = NoTarget

AddDummyTasks ==
  /\ dk_target = NoTarget
  /\ LET r == add_dummy_tasks(graph)
     IN  /\ dask_graph' = r.graph
         /\ dk_target' = IF r.raised THEN SelfReference ELSE r.target
  /\ UNCHANGED <<pxvars, planvars, clvars, runvars, poolvars, thvars, egvars,
                 scopevars,
                 restvars>>

DkNext == AddDummyTasks

\* ---------------------------------------------------------- the control tokens
\* Largest number of pickle.dumps calls.
MaxTrips == 3

\* The process that runs the scheduler and a worker process of its pool.
Processes == {"main", "worker"}
\* The modules that define control tokens.
Modules == {"dagrunner.events", "dagrunner.plugin_framework"}
\* The classes a module defines and the attribute that holds the instance of
\* each: SKIP_EVENT = _SkipEvent(), IGNORE_EVENT = _IgnoreEvent().
EventClasses == <<"_SkipEvent", "_IgnoreEvent">>
Class(m, c) == [module |-> m, name |-> c]
AttributeOf(cls) ==
  [module |-> cls.module,
   name |-> IF cls.name = "_SkipEvent" THEN "SKIP_EVENT" ELSE "IGNORE_EVENT"]

PkIdle ==
  /\ instances = EmptyDict /\ tokens = EmptyDict /\ nobj = EmptyDict
  /\ wire = {} /\ held = EmptyDict /\ trips = 0

\* No module is imported yet in any process.
PkInit ==
  /\ instances = [p \in Processes |-> EmptyDict]
  /\ tokens = [p \in Processes |-> EmptyDict]
  /\ nobj = [p \in Processes |-> 0]
  /\ wire = {}
  /\ held = [p \in Processes |-> {}]
  /\ trips = 0

\* A process: its Singleton._instances, its module attributes, and the
\* number of objects it has created.
Process(inst, attrs, n) == [instances |-> inst, tokens |-> attrs, nobj |-> n]

\* A new instance of cls, the n-th object of process p.
NewObject(cls, p, n) == [class |-> cls, pid |-> p, id |-> n]

\* Mutation of SingletonCall: a class call always makes a new instance.
SingletonCall_New(P, p, cls) ==
  LET o == NewObject(cls, p, P.nobj + 1)
  IN  [process |-> Process(Merge(P.instances, [c \in {cls} |-> o]), P.tokens,
                           P.nobj + 1),
       object |-> o]

\* Singleton.__call__(cls) in process p: the instance of cls, created and
\* kept in _instances the first time.
SingletonCall(P, p, cls) ==
  IF cls \in DOMAIN P.instances
    THEN [process |-> P, object |-> P.instances[cls]]
  ELSE LET o == NewObject(cls, p, P.nobj + 1)
       IN  [process |-> Process(Merge(P.instances, [c \in {cls} |-> o]),
                                P.tokens, P.nobj + 1),
            object |-> o]

\* The body of module m runs in process p, unless m is already imported: each
\* class is called once and the instance is bound to the module attribute.
RECURSIVE ImportModule(_, _, _, _)
ImportModule(P, p, m, i) ==
  IF i > Len(EventClasses) \/ AttributeOf(Class(m, EventClasses[i])) \in DOMAIN P.tokens
    THEN P
  ELSE LET cls == Class(m, EventClasses[i])
           r == SingletonCall(P, p, cls)
       IN  ImportModule(
             Process(r.process.instances,
                     Merge(r.process.tokens, [a \in {AttributeOf(cls)} |-> r.object]),
                     r.process.nobj),
             p, m, i + 1)

\* _EventBase.__reduce__: (self.__class__, ()), the class pickled by its
\* qualified name.
Reduce(o) == [callable |-> o.class, args |-> <<>>]

\* pickle.loads(data) in process p: the module of the class is imported if it
\* is not, and the class is called with the args.
Loads(P, p, data) ==
  SingletonCall(ImportModule(P, p, data.callable.module, 1), p, data.callable)

\* What is known of process p.
ProcessOf(p) == Process(instances[p], tokens[p], nobj[p])

\* Process p imports module m.
Import(p, m) ==
  /\ AttributeOf(Class(m, EventClasses[1])) \notin DOMAIN tokens[p]
  /\ LET P == ImportModule(ProcessOf(p), p, m, 1)
     IN  /\ instances' = [instances EXCEPT ![p] = P.instances]
         /\ tokens' = [tokens EXCEPT ![p] = P.tokens]
         /\ nobj' = [nobj EXCEPT ![p] = P.nobj]
  /\ UNCHANGED <<wire, held, trips>>
  /\ UNCHANGED <<pxvars, planvars, clvars, runvars, poolvars, thvars, egvars,
                 scopevars, dkvars, cdvars, nodevars, bkvars, dpvars>>

\* Process p serializes a token it holds, a module attribute or an object it
\* has deserialized, and sends it to process q (q = p: a round trip inside
\* one process).
Send(p, q) ==
  /\ trips < MaxTrips /\ wire = {}
  /\ \E o \in Range(tokens[p]) \cup held[p] :
       wire' = {[to |-> q, data |-> Reduce(o)]}
  /\ trips' = trips + 1
  /\ UNCHANGED <<instances, tokens, nobj, held>>
  /\ UNCHANGED <<pxvars, planvars, clvars, runvars, poolvars, thvars, egvars,
                 scopevars, dkvars, cdvars, nodevars, bkvars, dpvars>>

\* Process q deserializes a pickle sent to it.
Receive(q) ==
  \E msg \in wire :
    /\ msg.to = q
    /\ LET r == Loads(ProcessOf(q), q, msg.data)
       IN  /\ instances' = [instances EXCEPT ![q] = r.process.instances]
           /\ tokens' = [tokens EXCEPT ![q] = r.process.tokens]
           /\ nobj' = [nobj EXCEPT ![q] = r.process.nobj]
           /\ held' = [held EXCEPT ![q] = @ \cup {r.object}]
    /\ wire' = wire \ {msg}
    /\ UNCHANGED trips
    /\ UNCHANGED <<pxvars, planvars, clvars, runvars, poolvars, thvars, egvars,
                   scopevars, dkvars, cdvars, nodevars, bkvars, dpvars>>

PkNext ==
  \/ \E p \in Processes : \E m \in Modules : Import(p, m)
  \/ \E p \in Processes : \E q \in Processes : Send(p, q)
  \/ \E q \in Processes : Receive(q)

\* ------------------------------------------------------ the scheduler backends
\* The backends of SCHEDULERS: AsyncMP, SingleMachine (threads, processes,
\* single-threaded), Distributed and DaskOnRay.
DaskBackends == {"processes", "distributed", "ray"}
Backends == {"multiprocessing"} \cup DaskBackends

BkIdle == scheduler = "multiprocessing" /\ exec_graph = EmptyDict

\* The plan as a dask graph: key -> the keys among the task's arguments.
KeyedPlan(g) ==
  [k \in {Key(t) : t \in DOMAIN g} |-> {Key(p) : p \in Range(g[k.of]) \cap DOMAIN g}]

\* SingleMachine.run and Distributed.run call add_dummy_tasks(dask_graph.copy()),
\* DaskOnRay.run calls add_dummy_tasks(dask_graph).
RunsOnCopy(backend) == backend # "ray"

\* scheduler.run(self._exec_graph) is about to be called on any graph.
BkInit ==
  /\ scheduler \in Backends
  /\ IF scheduler = "multiprocessing" THEN RunInitAny /\ DkIdle
                                      ELSE DkInit /\ RunIdle
  /\ exec_graph = KeyedPlan(graph)

\* run of a dask backend up to the compute: the graph add_dummy_tasks
\* returns and, when it was not given a copy, the plan it has updated in
\* place (nothing is updated when it raises).
DaskRun ==
  /\ scheduler \in DaskBackends /\ dk_target = NoTarget
  /\ LET r == add_dummy_tasks(graph)
     IN  /\ dask_graph' = r.graph
         /\ dk_target' = IF r.raised THEN SelfReference ELSE r.target
         /\ exec_graph' = IF RunsOnCopy(scheduler) \/ r.raised THEN exec_graph
                          ELSE r.graph
  /\ UNCHANGED scheduler
  /\ UNCHANGED <<pxvars, planvars, clvars, runvars, poolvars, thvars, egvars,
                 scopevars, cdvars, nodevars, pkvars, dpvars>>

BkNext == DaskRun \/ Coordinator \/ Workers

\* ------------------------------------------------------------------ DataPolling
\* Largest timeout of a DataPolling instance, in polling intervals.
MaxTimeout == 2
\* The local, non globular paths that may be polled.
Files == {"a", "b"}
\* The arguments (error_on_missing, return_found) of the constructor.
Configs == BOOLEAN \X BOOLEAN

Untried == Val("untried", 0)
\* The errors of __init__ and of __call__, and the set __call__ returns.
ValueError == Val("ValueError", 0)
FileNotFoundError == Val("FileNotFoundError", 0)
FoundSet == Val("fpaths_found", 0)

DpIdle ==
  /\ error_on_missing = TRUE /\ return_found = FALSE /\ timeout = 0
  /\ on_disk = {} /\ paths = {} /\ fpaths_found = {} /\ time_taken = 0
  /\ dp_pc = "idle" /\ dp_res = Untried
  /\ outcomes = EmptyDict

\* No instance is made yet; any of the files may exist.
DpInit ==
  /\ error_on_missing = TRUE /\ return_found = FALSE /\ timeout = 0
  /\ on_disk \in SUBSET Files
  /\ paths = {} /\ fpaths_found = {} /\ time_taken = 0
  /\ dp_pc = "idle" /\ dp_res = Untried
  /\ outcomes = [c \in Configs |-> Untried]

\* Lines 231-234: the arguments __init__ refuses.
Refused(eom, rf) == ~eom /\ ~rf

\* DataPolling(timeout=t, error_on_missing=eom, return_found=rf)
DpConstruct(eom, rf, t) ==
  /\ dp_pc = "idle"
  /\ error_on_missing' = eom /\ return_found' = rf /\ timeout' = t
  /\ IF Refused(eom, rf)
       THEN /\ dp_pc' = "rejected" /\ dp_res' = ValueError
            /\ outcomes' = [outcomes EXCEPT ![<<eom, rf>>] = ValueError]
       ELSE /\ dp_pc' = "constructed" /\ dp_res' = Untried
            /\ outcomes' = outcomes
  /\ UNCHANGED <<on_disk, paths, fpaths_found, time_taken>>
  /\ UNCHANGED <<pxvars, planvars, clvars, runvars, poolvars, thvars, egvars,
                 scopevars, dkvars, cdvars, nodevars, pkvars, bkvars>>

\* Lines 264-278: __call__(*a) on local paths starts to poll.
DpCall(a) ==
  /\ dp_pc = "constructed"
  /\ paths' = a /\ fpaths_found' = {} /\ time_taken' = 0
  /\ dp_pc' = "poll"
  /\ UNCHANGED <<error_on_missing, return_found, timeout, on_disk, dp_res,
                 outcomes>>
  /\ UNCHANGED <<pxvars, planvars, clvars, runvars, poolvars, thvars, egvars,
                 scopevars, dkvars, cdvars, nodevars, pkvars, bkvars>>

\* Lines 323-347: what __call__ does when the polling loop is left with the
\* paths left not found: raise, return SKIP_EVENT, the files found or None.
AfterPolling(left, eom, rf) ==
  IF left # {} /\ eom THEN FileNotFoundError
  ELSE IF left # {} /\ ~rf THEN SKIP_EVENT
  ELSE IF rf THEN FoundSet
  ELSE None

\* Lines 279-347: one pass of the polling loop; the loop sleeps while paths
\* are missing and the timeout is not reached, and __call__ ends otherwise.
DpPoll ==
  /\ dp_pc = "poll"
  /\ LET expanded_paths == paths \cap on_disk
         left == paths \ expanded_paths
         out == AfterPolling(left, error_on_missing, return_found)
     IN  /\ fpaths_found' = fpaths_found \cup expanded_paths
         /\ paths' = left
         /\ IF left # {} /\ timeout # 0 /\ time_taken < timeout
              THEN /\ time_taken' = time_taken + 1
                   /\ UNCHANGED <<dp_pc, dp_res, outcomes>>
              ELSE /\ time_taken' = time_taken
                   /\ dp_res' = out
                   /\ dp_pc' = IF out = FileNotFoundError THEN "raised"
                               ELSE "returned"
                   /\ outcomes' =
                        IF left # {}
                          THEN [outcomes EXCEPT
                                  ![<<error_on_missing, return_found>>] = out]
                          ELSE outcomes
  /\ UNCHANGED <<error_on_missing, return_found, timeout, on_disk>>
  /\ UNCHANGED <<pxvars, planvars, clvars, runvars, poolvars, thvars, egvars,
                 scopevars, dkvars, cdvars, nodevars, pkvars, bkvars>>

\* A file is written by another process.
FileAppears(f) ==
  /\ f \notin on_disk
  /\ on_disk' = on_disk \cup {f}
  /\ UNCHANGED <<error_on_missing, return_found, timeout, paths, fpaths_found,
                 time_taken, dp_pc, dp_res, outcomes>>
  /\ UNCHANGED <<pxvars, planvars, clvars, runvars, poolvars, thvars, egvars,
                 scopevars, dkvars, cdvars, nodevars, pkvars, bkvars>>

\* The instance is dropped; another one may be made.
DpDrop ==
  /\ dp_pc \in {"rejected", "returned", "raised"}
  /\ dp_pc' = "idle" /\ dp_res' = Untried
  /\ paths' = {} /\ fpaths_found' = {} /\ time_taken' = 0
  /\ UNCHANGED <<error_on_missing, return_found, timeout, on_disk, outcomes>>
  /\ UNCHANGED <<pxvars, planvars, clvars, runvars, poolvars, thvars, egvars,
                 scopevars, dkvars, cdvars, nodevars, pkvars, bkvars>>

DpNext ==
  \/ \E c \in Configs : \E t \in 0..MaxTimeout : DpConstruct(c[1], c[2], t)
  \/ \E a \in (SUBSET Files) \ {{}} : DpCall(a)
  \/ DpPoll
  \/ \E f \in Files : FileAppears(f)
  \/ DpDrop

\* -------------------------------------------------------------- specifications
\* The parts that follow the scheduler's are not modelled.
RestIdle == CdIdle /\ NodesIdle /\ PkIdle /\ BkIdle /\ DpIdle

\* plugin_executor called once on any inputs.
InitExec == PxInit /\ PlanIdle /\ ClobberIdle /\ RunIdle /\ ThIdle
  /\ EgIdle /\ ScopeIdle /\ DkIdle /\ RestIdle
SpecExec == InitExec /\ [][PxNext]_vars

\* _handle_clobber run on any plan and any artifacts.
InitClobber == ClobberInit /\ PxIdle /\ RunIdle /\ ThIdle
  /\ EgIdle /\ ScopeIdle /\ DkIdle /\ RestIdle
SpecClobber == InitClobber /\ [][ClobberNext]_vars

\* AsyncMP.run on any acyclic plan, with the workers of the pool.
Init == RunInit /\ PxIdle /\ ClobberIdle /\ ThIdle
  /\ EgIdle /\ ScopeIdle /\ DkIdle /\ RestIdle
Spec == Init /\ [][Next]_vars

\* The same, where the coordinator keeps running and every task submitted to
\* the pool is run to its end.
SpecFair ==
  /\ Init /\ [][Next]_vars
  /\ WF_vars(Coordinator)
  /\ \A t \in Tasks : WF_vars(\E u \in {"return", "raise"} : WorkerFinish(t, u, Data(t)))

\* AsyncMP.run where the Units return data, None or a control token.
SpecData == Init /\ [][NextData]_vars

\* plugin_executor run concurrently by the threads of one process.
InitThreads == ThInit /\ PxIdle /\ PlanIdle /\ ClobberIdle /\ RunIdle
  /\ EgIdle /\ ScopeIdle /\ DkIdle /\ RestIdle
SpecThreads == InitThreads /\ [][ThNext]_vars

\* The construction of an ExecuteGraph.
InitCompile ==
  /\ EgInit /\ PxIdle /\ RunIdle /\ ThIdle /\ ScopeIdle /\ DkIdle
  /\ mtime \in [Tasks -> 0..MaxTime]
  /\ mark_removal = EmptyDict /\ starting_nodes = {} /\ stack = <<>> /\ cpc = "idle"
  /\ RestIdle
SpecCompile == InitCompile /\ [][EgNext]_vars

\* _handle_clobber, then AsyncMP.run on the plan it returned.
NextCached == ClobberNext \/ RunFiltered \/ Coordinator \/ Workers
SpecCached == InitClobber /\ [][NextCached]_vars

\* An AsyncMP scheduler used as a scope around one call of run.
NextScope == Scope \/ Coordinator \/ Workers
InitScope ==
  ScopeInit /\ PxIdle /\ ClobberIdle /\ ThIdle /\ EgIdle /\ DkIdle /\ RestIdle
SpecScope == InitScope /\ [][NextScope]_vars

\* add_dummy_tasks on any graph.
InitDummy ==
  /\ DkInit /\ PxIdle /\ ClobberIdle /\ RunIdle /\ ThIdle /\ EgIdle /\ ScopeIdle
  /\ RestIdle
SpecDummy == InitDummy /\ [][DkNext]_vars

\* AsyncMP.run on any graph.
InitAny ==
  /\ RunInitAny /\ PxIdle /\ ClobberIdle /\ ThIdle /\ EgIdle /\ ScopeIdle /\ DkIdle
  /\ RestIdle
SpecAny == InitAny /\ [][Next]_vars

\* plugin_executor called once on any call descriptor.
InitCall ==
  /\ CdInit /\ PlanIdle /\ ClobberIdle /\ RunIdle /\ ThIdle
  /\ EgIdle /\ ScopeIdle /\ DkIdle /\ NodesIdle /\ PkIdle /\ BkIdle /\ DpIdle
SpecCall == InitCall /\ [][CdNext]_vars

\* The construction of an ExecuteGraph and one call of it, on a graph whose
\* nodes may lack a call attribute.
NextExecuteGraph == EgNext \/ CallExecuteGraph \/ Scope \/ Coordinator \/ NodeWorkers
InitExecuteGraph ==
  /\ EgInitNodes /\ PxIdle /\ ClobberIdle /\ RunIdle /\ ThIdle /\ DkIdle
  /\ fail_fast = TRUE /\ pool = "none" /\ terminated = FALSE /\ spc = "idle"
  /\ CdIdle /\ PkIdle /\ BkIdle /\ DpIdle
SpecExecuteGraph == InitExecuteGraph /\ [][NextExecuteGraph]_vars

\* The control tokens pickled and unpickled in and between two processes.
InitPickle ==
  /\ PkInit /\ PxIdle /\ PlanIdle /\ ClobberIdle /\ RunIdle /\ ThIdle
  /\ EgIdle /\ ScopeIdle /\ DkIdle /\ CdIdle /\ NodesIdle /\ BkIdle /\ DpIdle
SpecPickle == InitPickle /\ [][PkNext]_vars

\* One run of any scheduler backend on any graph.
InitBackends ==
  /\ BkInit /\ PxIdle /\ ClobberIdle /\ ThIdle /\ EgIdle /\ ScopeIdle
  /\ CdIdle /\ NodesIdle /\ PkIdle /\ DpIdle
SpecBackends == InitBackends /\ [][BkNext]_vars

\* DataPolling instances made and called one after the other.
InitPolling ==
  /\ DpInit /\ PxIdle /\ PlanIdle /\ ClobberIdle /\ RunIdle /\ ThIdle
  /\ EgIdle /\ ScopeIdle /\ DkIdle /\ CdIdle /\ NodesIdle /\ PkIdle /\ BkIdle
SpecPolling == InitPolling /\ [][DpNext]_vars

\* ===================================================================== claims

\* ---- C1.  Under AsyncMP.run a task is submitted to the pool only after each
\* of its predecessors has completed successfully and the coordinator has
\* processed that completion (popped it from pred_deps), in every
\* interleaving of worker completions and polling iterations.
C1_PredecessorsCompleteFirst ==
  \A t \in Tasks :
    nsubmit[t] > 0 =>
      \A p \in Range(nxgraph[t]) : worker[p] = "ok" /\ p \notin DOMAIN pred_deps

\* C1 witness: a task with two predecessors has been submitted.
C1_Witness ==
  \E t \in Tasks : Len(nxgraph[t]) >= 2 /\ worker[t] = "running"

\* ---- C2.  Each task is submitted to the pool at most once per run, also
\* when it entered node_queue more than once, and exactly once in a run that
\* ended without any task failing.
C2_SubmittedOnce ==
  /\ \A t \in Tasks : nsubmit[t] <= 1
  /\ (rpc \in {"returned", "raised"} /\ \A t \in Tasks : worker[t] # "failed")
       => \A t \in Tasks : nsubmit[t] = 1

\* C2 witness: run has returned and a task with two predecessors, which was
\* queued once by each of them, was submitted once.
C2_Witness ==
  /\ rpc = "returned"
  /\ \E t \in Tasks : Len(nxgraph[t]) >= 2 /\ nsubmit[t] = 1

\* ---- C9.  When a task fails, run raises an error that names the key and
\* the descriptor (with the node id) of a failed task, with the worker's
\* exception as cause; no transitive successor of a failed task is ever
\* submitted; nothing is submitted once the coordinator has observed the
\* failure.
C9_FailFast ==
  /\ [](\A t \in Tasks :
          worker[t] = "failed" =>
            \A d \in Descendants(nxgraph, t) : nsubmit[d] = 0)
  /\ []((rpc = "raised" /\ error.kind = "Command failure") =>
          /\ worker[error.key] = "failed"
          /\ error.command.node_id = error.key
          /\ error.cause = WorkerError(error.key))
  /\ [][failures_found => nsubmit' = nsubmit]_vars
  /\ ((\E t \in Tasks : worker[t] = "failed")
        ~> (rpc = "raised" /\ error.kind = "Command failure"))

\* C9 witness: run has raised for a failed task that has a successor, while a
\* task of another branch, still in async_results, has completed.
C9_Witness ==
  /\ rpc = "raised" /\ error.kind = "Command failure"
  /\ Descendants(nxgraph, error.key) # {}
  /\ \E t \in Range(async_results) : worker[t] = "ok"

\* ---- C10.  On an acyclic plan, if no submitted task fails, run eventually
\* leaves its polling loop and returns, and then every task has been
\* submitted and has completed and nothing is left in node_queue.
C10_RunReturns ==
  /\ <>(rpc = "returned" \/ \E t \in Tasks : worker[t] = "failed")
  /\ [](rpc = "returned" =>
          /\ \A t \in Tasks : nsubmit[t] = 1 /\ worker[t] = "ok"
          /\ node_queue = <<>> /\ async_results = <<>>)

\* C10 witness: run has returned on a plan with a dependency.
C10_Witness ==
  /\ rpc = "returned"
  /\ \E t \in Tasks : Len(nxgraph[t]) >= 1

\* ---- C11.  Whenever AsyncMP.run submits a task, each positional argument
\* that is the key of a predecessor has been replaced by that predecessor's
\* result, in the order of the task's predecessor list, also when the result
\* is None or a control token; from the submission of a task until its
\* completion is processed every predecessor's result is in data_map.
C11_ArgsAreResults ==
  \A t \in Tasks :
    nsubmit[t] > 0 =>
      /\ Len(wargs[t]) = Len(nxgraph[t])
      /\ \A i \in DOMAIN wargs[t] :
           /\ worker[nxgraph[t][i]] = "ok"
           /\ wargs[t][i] = wres[nxgraph[t][i]]
      /\ t \in DOMAIN pred_deps =>
           \A p \in Range(nxgraph[t]) :
             p \in DOMAIN data_map /\ data_map[p] = wres[p]

\* C11 witness: a task with two predecessors has been submitted with None and
\* a control token as its arguments.
C11_Witness ==
  \E t \in Tasks :
    /\ nsubmit[t] > 0 /\ Len(nxgraph[t]) >= 2
    /\ None \in Range(wargs[t])
    /\ SKIP_EVENT \in Range(wargs[t])

\* The coordinator has processed the completion of t (t is DONE).
Done(t) == rpc \notin {"idle", "start"} /\ t \notin DOMAIN pred_deps

\* ---- C12.  After the coordinator has processed any completion, data_map
\* holds exactly the results of the completed tasks that still have a
\* successor that is not completed: a result is evicted in the step in which
\* its last successor completes, a task without successors is evicted when it
\* completes, and data_map is empty when run returns.
C12_DataMapHoldsNeededResults ==
  /\ rpc \notin {"idle", "start"} =>
       /\ DOMAIN data_map =
            {t \in Tasks : Done(t) /\ \E s \in SuccDeps(nxgraph)[t] : ~Done(s)}
       /\ \A t \in DOMAIN data_map : data_map[t] = wres[t]
  /\ rpc = "returned" => data_map = EmptyDict

\* C12 witness: a task with a successor has been evicted while the result of
\* another task is still held.
C12_Witness ==
  /\ \E t \in Tasks :
       Done(t) /\ SuccDeps(nxgraph)[t] # {} /\ t \notin DOMAIN data_map
  /\ data_map # EmptyDict

\* ---- C13 (as stated; refuted by the code).  Every invocation of a
\* node-aware Unit receives as node_properties the properties of the node
\* being executed, also when several nodes hold the same call-descriptor dict
\* and are run concurrently by threads of one process.
C13_OwnNodeProperties ==
  \A n \in DOMAIN th_recv :
    (th_aware[n] /\ th_recv[n] # NoCall) =>
      /\ "node_properties" \in DOMAIN th_recv[n]
      /\ th_recv[n]["node_properties"] = Props(n)

\* The cache filter has returned and task t is no longer in the plan.
Removed(t) == cpc = "done" /\ t \notin DOMAIN graph

\* The artifact of t exists and is at least as new as the artifact of every
\* predecessor: a predecessor without artifact, or with an equal mtime,
\* counts as not newer.
Fresh(t) ==
  /\ mtime[t] >= 1
  /\ \A p \in Range(nxgraph[t]) : mtime[p] = 0 \/ mtime[p] <= mtime[t]

\* Task t and all its ancestors have an artifact at least as new as the
\* artifacts of their predecessors.
FreshLineage(t) == Fresh(t) /\ \A a \in Ancestors(nxgraph, t) : Fresh(a)

\* ---- C14 (as stated; refuted by the code).  When caching is enabled, the
\* plan held by ExecuteGraph after construction contains only nodes the cache
\* filter does not mark skip: a node whose artifact exists and is not older
\* than its inputs, and whose ancestors are all skipped, is absent.
C14_PlanIsFiltered ==
  (epc = "ready" /\ cache_enabled) =>
    \A t \in Tasks : FreshLineage(t) => t \notin DOMAIN graph

\* ---- C15 (as stated; refuted by the code).  After the cache filter has
\* removed the skip-marked tasks, every task that remains is submitted with
\* one positional input per original predecessor, none of which is the bare
\* key of a predecessor.
C15_NoBareKeyOfRemoved ==
  \A t \in DOMAIN nsubmit :
    nsubmit[t] > 0 =>
      /\ Len(wargs[t]) = Len(nxgraph[t])
      /\ \A i \in DOMAIN wargs[t] : wargs[t][i] # Key(nxgraph[t][i])

\* The scope has been left in non-fail-fast mode after run observed a task
\* failure.
LeftAfterFailure == spc = "left" /\ ~fail_fast /\ failures_found

\* ---- C16 (as stated; refuted by the code).  In non-fail-fast mode, after a
\* task failure the tasks in flight finish before the error leaves the
\* scheduler, and the error aggregates all failures that occurred.
C16_AggregatesFailures ==
  LeftAfterFailure =>
    /\ \A t \in Tasks : worker[t] \in {"none", "ok", "failed"}
    /\ \A t \in Tasks : worker[t] = "failed" => t = error.key

\* ---- C16 (amended).  In non-fail-fast mode, once run has observed a task
\* failure nothing more is submitted and run raises at once; the pool is not
\* terminated, the tasks in flight finish before the scope is left, and the
\* error that leaves the scope is the one raised for the first failure
\* observed: it names that one failed task, not the other failures.
C16_FirstFailureOnly ==
  /\ [](LeftAfterFailure =>
          /\ ~terminated
          /\ \A t \in Tasks : worker[t] \in {"none", "ok", "failed"}
          /\ error.kind = "Command failure"
          /\ worker[error.key] = "failed"
          /\ error.cause = WorkerError(error.key))
  /\ [][(~fail_fast /\ failures_found) =>
          (nsubmit' = nsubmit /\ error' = error)]_vars

\* C16 witness: the scope has been left in non-fail-fast mode after two tasks
\* failed, one of which the error does not name.
C16_Witness ==
  /\ LeftAfterFailure
  /\ \E t \in Tasks : worker[t] = "failed" /\ t # error.key

\* ---- C17.  The pool is created when the scope is entered; whenever the
\* scope has been left (after run returned, after a task failure or after
\* another error) the pool has been closed and joined and no task is running;
\* the pool has been terminated exactly when __exit__ has run with fail_fast
\* set and a task failure observed by run.
C17_PoolLifecycle ==
  /\ pool = "none" <=> spc = "new"
  /\ pool = "open" <=> spc = "scope"
  /\ spc = "left" =>
       /\ pool = "joined"
       /\ \A t \in Tasks : worker[t] # "running"
  /\ terminated <=> (spc \in {"join", "left"} /\ fail_fast /\ failures_found)
  /\ (\E t \in Tasks : worker[t] = "terminated") => terminated

\* C17 witness: the scope has been left after a task failure in fail-fast
\* mode and a task that was in flight has been killed.
C17_Witness ==
  /\ spc = "left" /\ terminated
  /\ \E t \in Tasks : worker[t] = "terminated"

\* Scopes left on the other exit paths: after run returned, and after an
\* error that is not a task failure while a task was in flight.
C17_WitnessReturned == spc = "left" /\ rpc = "returned"
C17_WitnessInterrupted ==
  /\ spc = "left" /\ error = [kind |-> "interrupted"]
  /\ \E t \in Tasks : worker[t] = "ok" /\ t \in Range(async_results)

\* add_dummy_tasks has returned a graph and a target.
Dummied == dk_target # NoTarget /\ dk_target # SelfReference

\* The keys of dask_graph that no key depends on.
WithoutSuccessor == {k \in DOMAIN dask_graph : \A j \in DOMAIN dask_graph : k \notin dask_graph[j]}

\* The keys the target depends on, directly or not.
RECURSIVE Forced(_, _)
Forced(S, n) ==
  IF n = 0 THEN S
  ELSE Forced(S \cup UNION {dask_graph[k] : k \in S \cap DOMAIN dask_graph}, n - 1)

\* The sinks: no-op tasks that depend on one task of the plan.
Sinks == {k \in DOMAIN dask_graph : k.tag = "waiter" /\ \E t \in Tasks : dask_graph[k] = {Key(t)}}

\* The statement of C18 about the graph add_dummy_tasks returned.
TargetForcesAll ==
  /\ \A t \in Tasks :
       SuccDeps(nxgraph)[t] = {} <=> \E k \in Sinks : dask_graph[k] = {Key(t)}
  /\ Cardinality(Sinks) = Cardinality(Terminals(nxgraph))
  /\ IF Cardinality(Sinks) = 1 THEN dk_target \in Sinks
     ELSE dk_target \notin Sinks /\ dask_graph[dk_target] = Sinks
  /\ DOMAIN dask_graph = {Key(t) : t \in Tasks} \cup Sinks \cup {dk_target}
  /\ WithoutSuccessor = {dk_target}
  /\ \A t \in Tasks : Key(t) \in Forced({dk_target}, MaxTasks + 2)

\* ---- C18 (as stated; refuted by the code).  For any plan without
\* self-references add_dummy_tasks adds exactly one no-op sink per task
\* without successor and, unless there is exactly one sink, one global no-op
\* that depends on all of them; the target is the only task without a
\* successor and every original task is a transitive predecessor of it.
C18_TargetForcesAll ==
  (Dummied /\ ~HasSelfEdge(nxgraph)) => TargetForcesAll

\* The same holds of the acyclic plans.
C18_AcyclicTargetForcesAll ==
  (Dummied /\ ~HasCycle(nxgraph)) => TargetForcesAll

\* ---- C19 (as stated; refuted by the code).  A graph that contains a
\* directed cycle is rejected before any task is submitted: running it
\* submits no task.
C19_CycleRunsNothing ==
  (rpc # "idle" /\ HasCycle(nxgraph)) => \A t \in Tasks : nsubmit[t] = 0

\* ---- C20 (as stated; refuted by the code).  A graph that contains a
\* self-edge is rejected before any task is executed, by the worker-pool
\* scheduler as by add_dummy_tasks: no task is submitted.
C20_SelfEdgeRunsNothing ==
  /\ (rpc # "idle" /\ HasSelfEdge(nxgraph)) => \A t \in Tasks : nsubmit[t] = 0
  /\ (dk_target # NoTarget /\ HasSelfEdge(nxgraph)) => dk_target = SelfReference

\* ---- C3 (as stated; refuted by the code).  If any positional input of a
\* node is a SKIP token, plugin_executor does not invoke the Unit and returns
\* SKIP.
C3_SkipInputSkipsUnit ==
  (res # NoCall /\ \E i \in DOMAIN args : args[i] \in SkipTokens)
    => (~res.invoked /\ res.kind = "return" /\ res.value \in SkipTokens)

\* ---- C4 (as stated; refuted by the code).  Outside dry-run and without SKIP
\* inputs: the node returns IGNORE without invoking the Unit iff at least two
\* inputs were present and all of them were IGNORE tokens; in every other
\* case the Unit is invoked with the inputs that are neither IGNORE nor null.
C4_IgnoreIffAllIgnore ==
  (res # NoCall /\ ~dry_run /\ Range(args) \cap SkipTokens = {})
    => LET allIgnore == Len(args) >= 2 /\ Range(args) \subseteq IgnoreTokens
       IN  /\ allIgnore <=> (~res.invoked /\ res.value \in IgnoreTokens)
           /\ ~allIgnore =>
                 /\ res.invoked
                 /\ res.unit_args = Filter(args, IgnoreTokens \cup {None})

\* ---- C5 (as stated; refuted by the code).  After the cache filter no
\* descendant of a task that stays in the plan is removed.
C5_DescendantsOfKeptStay ==
  cpc = "done" =>
    \A t \in DOMAIN graph : \A d \in Descendants(nxgraph, t) : d \in DOMAIN graph

\* ---- C6 (as stated; refuted by the code).  A task is removed by the cache
\* filter if and only if its artifact exists and is at least as new as every
\* predecessor's artifact.
C6_RemovedIffFresh ==
  cpc = "done" => \A t \in Tasks : Removed(t) <=> Fresh(t)

\* ---- C6 (amended).  A task is removed by the cache filter only if its
\* artifact exists and is at least as new as every predecessor's artifact;
\* for a task all of whose ancestors are removed (a source task included)
\* the condition is also sufficient.
C6_RemovedOnlyIfFresh ==
  cpc = "done" =>
    \A t \in Tasks :
      /\ Removed(t) => Fresh(t)
      /\ (\A a \in Ancestors(nxgraph, t) : Removed(a)) => (Removed(t) <=> Fresh(t))

\* C6 witness: the filter has returned, it has removed a task, and it has
\* kept a task below another one although its artifact is at least as new as
\* its inputs.
C6_Witness ==
  /\ cpc = "done"
  /\ \E t \in Tasks : Fresh(t) /\ ~Removed(t) /\ Ancestors(nxgraph, t) # {}
  /\ \E t \in Tasks : Removed(t)

CommonParams ==
  [k \in (DOMAIN common_kwargs) \cup {"verbose", "dry_run"} |->
     IF k = "verbose" THEN verbose
     ELSE IF k = "dry_run" THEN dry_run ELSE common_kwargs[k]]

\* ---- C8 (as stated; refuted by the code).  For a Unit that declares k in
\* its call signature: when commonParams has k and callParams does not, the
\* Unit is invoked with commonParams[k]; when both have k, the Unit is
\* invoked with callParams[k].
C8_PinnedCallParamWins ==
  \A k \in ParamKeys :
    (res # NoCall /\ res.invoked /\ k \in signature /\ k \in DOMAIN CommonParams)
      => /\ k \in DOMAIN res.unit_kwargs
         /\ res.unit_kwargs[k] = IF k \in DOMAIN call_kwargs THEN call_kwargs[k]
                                  ELSE CommonParams[k]

\* ---- C8 (amended).  For a Unit that declares k in its call signature: when
\* commonParams has k, the Unit is invoked with commonParams[k], whether or
\* not callParams has k too (the common value wins over the pinned one); when
\* only callParams has k, the Unit is invoked with callParams[k].
C8_CommonParamWins ==
  \A k \in ParamKeys :
    (res # NoCall /\ res.invoked /\ k \in signature)
      => /\ k \in DOMAIN CommonParams
              => (k \in DOMAIN res.unit_kwargs
                  /\ res.unit_kwargs[k] = CommonParams[k])
         /\ (k \notin DOMAIN CommonParams /\ k \in DOMAIN call_kwargs)
              => (k \in DOMAIN res.unit_kwargs
                  /\ res.unit_kwargs[k] = call_kwargs[k])

\* C8 witness: a Unit declaring k was invoked while the call tuple pinned k to
\* another value than the common one, and it received the common value.
C8_Witness ==
  /\ res # NoCall /\ res.invoked /\ "k" \in signature
  /\ "k" \in DOMAIN common_kwargs /\ "k" \in DOMAIN call_kwargs
  /\ common_kwargs["k"] # call_kwargs["k"]
  /\ res.unit_kwargs["k"] = common_kwargs["k"]

\* ---- C30.  On an acyclic plan in which no task fails, when the polling loop
\* of AsyncMP.run exits (pred_deps is empty) node_queue and async_results are
\* both empty, so neither "targets were not executed" nor "targets did not
\* complete execution" is ever raised.
C30_LoopExitsClean ==
  /\ rpc = "exit" => (node_queue = <<>> /\ async_results = <<>>)
  /\ error.kind \notin {"targets were not executed",
                        "targets did not complete execution"}

\* C30 witness: run has returned on a plan where some task has two
\* predecessors (it was queued twice) and every task was executed.
C30_Witness ==
  /\ rpc = "returned" /\ node_queue = <<>> /\ async_results = <<>>
  /\ \E t \in Tasks : Len(graph[t]) >= 2
  /\ \A t \in Tasks : worker[t] = "ok"

\* ---- C25 (as stated; refuted by the code).  The tokens exported by
\* dagrunner.events are the tokens plugin_executor uses: called with
\* dagrunner.events.SKIP_EVENT among its inputs plugin_executor returns that
\* token without invoking the Unit, and called with two
\* dagrunner.events.IGNORE_EVENT inputs it returns that token.
C25_EventsTokensAreTheTokens ==
  res # NoCall =>
    /\ events_SKIP_EVENT \in Range(args)
         => (~res.invoked /\ res.kind = "return" /\ res.value = events_SKIP_EVENT)
    /\ args = <<events_IGNORE_EVENT, events_IGNORE_EVENT>>
         => (~res.invoked /\ res.kind = "return" /\ res.value = events_IGNORE_EVENT)

\* The inputs hold no control token (in a dry run of a graph every input is
\* null, as every predecessor returned null).
NoTokenInput == Range(args) \subseteq {None, Data(0)}

\* ---- C22 (as stated; refuted by the code).  In dry-run mode no user Unit
\* code is run for a node, neither its constructor nor its call, the node
\* returns null, and the only errors raised are the validation error (no
\* call) and the arity error of the call descriptor.
C22_DryRunRunsNoUnitCode ==
  (res # NoCall /\ dry_run /\ NoTokenInput) =>
    /\ ~res.constructed /\ ~res.invoked
    /\ res.kind = "return" => res.value = None
    /\ res.kind = "raise" => res.error \in {CallRequired, ArityError}

\* ---- C22 (amended).  In dry-run mode plugin_executor never runs the call
\* of a Unit, but it runs the constructor of a class Unit whenever the call
\* descriptor has a valid arity; a node without control token among its
\* inputs returns null unless it raises, and what it raises is the error for
\* a missing call, the arity error, or the error of a constructor that
\* raised.
C22_DryRunOmitsOnlyTheCall ==
  (res # NoCall /\ dry_run /\ NoTokenInput) =>
    /\ ~res.invoked
    /\ res.constructed <=> (unit_is_class /\ Len(call) \in 1..3)
    /\ res.kind = "return" => res.value = None
    /\ res.kind = "raise" => res.error \in {CallRequired, ArityError, InitError}
    /\ res.error = InitError <=> (res.constructed /\ ctor = "raise")

\* C22 witness: a dry run has constructed a class Unit, with the init kwargs
\* of its call descriptor, has not called it and has returned null.
C22_Witness ==
  /\ res # NoCall /\ dry_run /\ NoTokenInput
  /\ unit_is_class /\ res.constructed /\ ~res.invoked
  /\ DOMAIN res.init_kwargs # {}
  /\ res.kind = "return" /\ res.value = None

\* ---- C23 (as stated; refuted by the code).  For a call descriptor
\* (Unit, params), whether the Unit is a function or a class, params are
\* keyword arguments of the invocation and not of the constructor: an invoked
\* Unit receives every key of params, and a constructor receives nothing but
\* common kwargs of its signature.
C23_PairParamsAreCallParams ==
  (res # NoCall /\ Len(call) = 2 /\ call[2] # None) =>
    /\ res.invoked => DOMAIN call[2] \subseteq DOMAIN res.unit_kwargs
    /\ res.constructed =>
         DOMAIN res.init_kwargs \subseteq (init_signature \cap DOMAIN CommonParams)

\* ---- C24.  For a class Unit: a common kwarg whose key is a named parameter
\* of the constructor reaches the constructor with the common value, and one
\* whose key is a named parameter of the call reaches the call with the
\* common value, also when the call tuple gives the key another value; a
\* common kwarg whose key is neither in the signature nor in the call
\* tuple's dict for the constructor (for the call) is not passed to it.
C24_CommonKwargsReachClassUnit ==
  (res # NoCall /\ unit_is_class /\ Len(call) \in 1..3) =>
    LET given == Unpack(call, TRUE)
    IN  \A k \in DOMAIN CommonParams :
          /\ (res.constructed /\ k \in init_signature)
               => (k \in DOMAIN res.init_kwargs
                   /\ res.init_kwargs[k] = CommonParams[k])
          /\ (res.invoked /\ k \in signature)
               => (k \in DOMAIN res.unit_kwargs
                   /\ res.unit_kwargs[k] = CommonParams[k])
          /\ (k \notin init_signature /\ k \notin DOMAIN given.init)
               => k \notin DOMAIN res.init_kwargs
          /\ (k \notin signature /\ k \notin DOMAIN given.kw)
               => k \notin DOMAIN res.unit_kwargs

\* C24 witness: a class Unit whose constructor and call both declare k was
\* constructed and called with the common value of k, while the call tuple
\* gave k another value for the constructor and for the call; the common
\* kwarg verbose, declared by neither, was passed to neither.
C24_Witness ==
  /\ res # NoCall /\ unit_is_class /\ Len(call) = 3
  /\ res.constructed /\ res.invoked
  /\ "k" \in init_signature /\ "k" \in signature /\ "k" \in DOMAIN common_kwargs
  /\ call[2] # None /\ call[3] # None
  /\ "k" \in DOMAIN call[2] /\ "k" \in DOMAIN call[3]
  /\ call[2]["k"] # common_kwargs["k"] /\ call[3]["k"] # common_kwargs["k"]
  /\ res.init_kwargs["k"] = common_kwargs["k"]
  /\ res.unit_kwargs["k"] = common_kwargs["k"]
  /\ "verbose" \notin DOMAIN res.init_kwargs
  /\ "verbose" \notin DOMAIN res.unit_kwargs

\* ---- C28 (as stated; refuted by the code).  A call of plugin_executor
\* leaves its inputs as they were: when it has returned or raised, the dicts
\* of the call descriptor and the common_kwargs dict hold exactly the entries
\* they held before the call.
C28_InputsNotModified ==
  [][res' # NoCall => (call' = call /\ common_kwargs' = common_kwargs)]_vars

\* ---- C21 (as stated; refuted by the code).  The construction of an
\* ExecuteGraph fails for a graph in which some node has no call attribute:
\* such a graph never yields a task plan and none of its nodes is executed.
C21_MissingCallRejectedAtCompile ==
  has_call # Tasks =>
    /\ epc # "ready" /\ graph = EmptyDict
    /\ \A t \in DOMAIN nsubmit : nsubmit[t] = 0

\* ---- C21 (amended).  The construction of an ExecuteGraph does not read the
\* call attribute: it yields a plan with a task for every node, with or
\* without call.  The task of a node without call fails when it is executed,
\* with the ValueError of plugin_executor for a missing call and without a
\* Unit being invoked, and the worker-pool scheduler's run of such a plan
\* never returns normally.
C21_MissingCallFailsWhenExecuted ==
  /\ epc = "ready" => graph = nxgraph
  /\ \A t \in DOMAIN worker :
       t \notin has_call =>
         /\ worker[t] # "ok"
         /\ worker[t] = "failed" => wres[t] = Val(CallRequired, t)
  /\ rpc = "returned" => has_call = Tasks

\* C21 witness: an ExecuteGraph was constructed on a graph with a node
\* without call; a node with call was executed, the task of a node without
\* call has failed with the error of the missing call, and run has raised the
\* failure of that task.
C21_Witness ==
  /\ epc = "ready" /\ has_call # Tasks
  /\ rpc = "raised" /\ error.kind = "Command failure"
  /\ error.key \notin has_call /\ error.cause = Val(CallRequired, error.key)
  /\ \E t \in has_call : worker[t] = "ok"

\* ---- C26.  Deserializing a serialized SKIP or IGNORE token, in the same
\* process or in another one, yields the instance that the process holds as
\* the module attribute of that sentinel: it is identical to it and different
\* from the other sentinel, after any number of round trips.
C26_RoundTripIsIdentity ==
  \A p \in Processes : \A o \in held[p] :
    /\ AttributeOf(o.class) \in DOMAIN tokens[p]
    /\ \A a \in DOMAIN tokens[p] :
         (o = tokens[p][a]) <=> (a = AttributeOf(o.class))

\* C26 witness: a SKIP token went from the main process to the worker and
\* back, and an IGNORE token made a round trip too; both processes hold the
\* two sentinels of the module as different objects.
C26_Witness ==
  /\ trips >= 3 /\ wire = {}
  /\ \E m \in Modules :
       LET skip == AttributeOf(Class(m, "_SkipEvent"))
           ignore == AttributeOf(Class(m, "_IgnoreEvent"))
       IN  /\ {skip, ignore} \subseteq DOMAIN tokens["main"]
           /\ skip \in DOMAIN tokens["worker"]
           /\ tokens["main"][skip] \in held["main"]
           /\ tokens["worker"][skip] \in held["worker"]
           /\ tokens["main"][ignore] \in held["main"]

\* ---- C27 (as stated; refuted by the code).  Running a scheduler, whatever
\* the backend, leaves the plan it was given unchanged: same keys, same
\* tasks.
C27_RunLeavesPlanUnchanged ==
  [][exec_graph' = exec_graph /\ graph' = graph]_vars

\* ---- C29 (as stated; refuted by the code).  There is a DataPolling
\* instance that the constructor accepts and whose __call__ returns
\* SKIP_EVENT when a polled file is still missing at the timeout: once an
\* instance of every configuration has been tried, one of them has returned
\* SKIP_EVENT.
C29_SomeInstanceReturnsSkip ==
  (\A c \in Configs : outcomes[c] # Untried)
    => \E c \in Configs : outcomes[c] = SKIP_EVENT

====
